---- MODULE Spec2Model ----
(***************************************************************************)
(* Model of mcp-blockchain-metadata: the session registry                  *)
(* (utils/session.manager.ts), the HTTP handlers that use it               *)
(* (handlers/mcp.handlers.ts), the repository cache                        *)
(* (services/repository.ts) and the token-list cache (services/tokens.ts). *)
(*                                                                         *)
(* Time is counted in minutes.  setTimeout callbacks never run before      *)
(* their delay has elapsed but may run any time after it (the event loop   *)
(* gives no upper bound), so a due timer is an enabled action, not a       *)
(* forced one.                                                             *)
(***************************************************************************)
EXTENDS Integers, Sequences, FiniteSets, TLC

(***************************************************************************)
(* Bounds of the model.                                                    *)
(***************************************************************************)
MaxTime == 70
TickStep == 10

\* the last instant the clock reaches
LastTick == (MaxTime \div TickStep) * TickStep

\* the instants the clock shows
Instants == {t \in 0..MaxTime : t % TickStep = 0}

(***************************************************************************)
(* Values.                                                                 *)
(***************************************************************************)
\* session ids minted by randomUUID
SessionIds == {"s1", "s2"}
\* names every object literal inherits from Object.prototype
ObjectPrototypeKeys == {"constructor"}
\* what a client can put in the mcp-session-id header
Keys == SessionIds \cup ObjectPrototypeKeys
\* the accessor every object literal inherits: reading it yields the object's
\* prototype, assigning an object to it replaces the prototype and creates
\* no own property
ProtoSetter == "__proto__"
InheritedKeys == ObjectPrototypeKeys \cup {ProtoSetter}
\* the names under which the two stores are read and written
RegistryKeys == Keys \cup {ProtoSetter}
\* StreamableHTTPServerTransport objects
Handles == {"h1", "h2"}

Absent == "undefined"
\* what obj[key] yields for an inherited name: a function, truthy
ProtoValue == "Object.prototype member"
\* sessionTimeouts slots hold the due time of their Timeout object
NoTimer == -1
ProtoTimer == -2
Never == -1
NoHeader == "no header"

DEFAULT_SESSION_TIMEOUT == 30

VARIABLES
    now,              \* the clock (Date.now() and the timer clock), minutes
    sessions,         \* SessionManager.sessions: own properties, Absent if none
    sessionTimeouts,  \* SessionManager.sessionTimeouts: handle of the timer stored per id
    timers,           \* pending setTimeout callbacks of the runtime
    closed,           \* transports whose close() has run
    transportSid,     \* transport.sessionId of every transport constructed
    lastAccess,       \* observer: per id, time of the last create/successful lookup
                      \* and the handle created, forgotten on explicit removal
    op,               \* observer: the last operation and what it returned
    repositoryCache,        \* services/repository.ts: the cached document or null
    repositoryCacheExpiry,  \* services/repository.ts: when the cached document expires
    repoCalls,              \* getRepository calls suspended in their fetch
    slotFetchedAt,          \* observer: when the fetch whose document is cached was issued
    protocolTokenCache,     \* services/tokens.ts: cache key -> tokens and timestamp
    tokenCalls,             \* getTokensByProtocol calls suspended in their fetch
    written,                \* observer: per (lowercased protocol, normalized chain),
                            \* the list and timestamp last stored for that pair
    replaced,               \* observer: the entry the last store to the token cache
                            \* took the place of
    fetches,                \* observer: number of outbound fetches issued
    toolCall,               \* the tool invocation in flight, suspended at an await
    authToken,              \* ENV.AUTH_TOKEN as captured by createAuthMiddleware
    env                     \* the entry point in use, the AUTH_TOKEN the deployment
                            \* configures, and envVars.AUTH_TOKEN of config/environment

sessionVars == <<sessions, sessionTimeouts, timers, closed, transportSid, lastAccess>>

repoVars == <<repositoryCache, repositoryCacheExpiry, repoCalls, slotFetchedAt>>

tokenVars == <<protocolTokenCache, tokenCalls, written, replaced>>

authVars == <<authToken, env>>

toolVars == <<toolCall, authVars>>

serviceVars == <<repoVars, tokenVars, fetches, toolVars>>

(***************************************************************************)
(* sessionTimeout as set by the constructor: argument 0 selects the        *)
(* default.                                                                *)
(***************************************************************************)
sessionTimeout == DEFAULT_SESSION_TIMEOUT

\* obj[key] on an object literal: own property, else the inherited member
Lookup(obj, key) ==
    IF obj[key] # Absent THEN obj[key]
    ELSE IF key \in InheritedKeys THEN ProtoValue
    ELSE Absent

\* JavaScript truthiness of a looked-up session
Truthy(v) == v # Absent

\* sessionTimeouts[key]: a Timeout object, an inherited member, or undefined
LookupTimeout(tmo, key) ==
    IF tmo[key] # NoTimer THEN tmo[key]
    ELSE IF key \in InheritedKeys THEN ProtoTimer
    ELSE NoTimer

TruthyTimer(h) == h # NoTimer

\* the registry as one value, so that methods can call one another
Registry == [sessions |-> sessions, sessionTimeouts |-> sessionTimeouts, timers |-> timers]

\* clearTimeout(handle): cancels the pending callback; anything that is not
\* a pending Timeout is ignored
clearTimeout(q, sessionId, handle) ==
    IF handle = ProtoTimer THEN q
    ELSE q \ {[sid |-> sessionId, due |-> handle]}

\* variant of refreshSessionTimeout that forgets to cancel the previous timer
refreshSessionTimeoutNoCancel(r, sessionId, t) ==
    [r EXCEPT !.sessionTimeouts[sessionId] = t + sessionTimeout,
              !.timers = r.timers \cup {[sid |-> sessionId, due |-> t + sessionTimeout]}]

refreshSessionTimeout(r, sessionId, t) ==
    LET old == LookupTimeout(r.sessionTimeouts, sessionId)
        q   == IF TruthyTimer(old) THEN clearTimeout(r.timers, sessionId, old) ELSE r.timers
    IN  [r EXCEPT !.sessionTimeouts[sessionId] = t + sessionTimeout,
                  !.timers = q \cup {[sid |-> sessionId, due |-> t + sessionTimeout]}]

\* getTransport: the value returned and the registry afterwards
getTransportRet(r, sessionId) == Lookup(r.sessions, sessionId)

getTransportReg(r, sessionId, t) ==
    IF Truthy(Lookup(r.sessions, sessionId))
    THEN refreshSessionTimeout(r, sessionId, t)
    ELSE r

addTransport(r, sessionId, transport, t) ==
    refreshSessionTimeout([r EXCEPT !.sessions[sessionId] = transport], sessionId, t)

\* variant of removeTransport that cancels the timer but keeps the entry
removeTransportKeepsEntry(r, sessionId) ==
    IF Truthy(Lookup(r.sessions, sessionId))
    THEN LET h == LookupTimeout(r.sessionTimeouts, sessionId)
         IN  IF TruthyTimer(h)
             THEN [r EXCEPT !.timers = clearTimeout(r.timers, sessionId, h),
                            !.sessionTimeouts[sessionId] = NoTimer]
             ELSE r
    ELSE r

removeTransport(r, sessionId) ==
    IF Truthy(Lookup(r.sessions, sessionId))
    THEN LET r1 == [r EXCEPT !.sessions[sessionId] = Absent]
             h  == LookupTimeout(r1.sessionTimeouts, sessionId)
         IN  IF TruthyTimer(h)
             THEN [r1 EXCEPT !.timers = clearTimeout(r1.timers, sessionId, h),
                             !.sessionTimeouts[sessionId] = NoTimer]
             ELSE r1
    ELSE r

getSessionIds(r) == {k \in Keys : r.sessions[k] # Absent}

getActiveSessions(r) == Cardinality(getSessionIds(r))

clearAllSessions(r) ==
    [sessions |-> [k \in RegistryKeys |-> Absent],
     sessionTimeouts |-> [k \in RegistryKeys |-> NoTimer],
     timers |-> {q \in r.timers : q.sid = ProtoSetter \/ r.sessionTimeouts[q.sid] # q.due}]

SetRegistry(r) ==
    /\ sessions' = r.sessions
    /\ sessionTimeouts' = r.sessionTimeouts
    /\ timers' = r.timers

Op(name, key, ret, status) ==
    [name |-> name, key |-> key, body |-> "", ret |-> ret, status |-> status,
     error |-> <<>>, cause |-> <<>>, args |-> <<>>, tokens |-> <<>>]

\* an HTTP request and the response it got
HttpOp(method, header, body, status) ==
    [name |-> method, key |-> header, body |-> body, ret |-> Absent, status |-> status,
     error |-> <<>>, cause |-> <<>>, args |-> <<>>, tokens |-> <<>>]

NoAccess == [at |-> Never, handle |-> Absent]

\* concurrent callers of the services (tool invocations in flight)
Callers == {"c1", "c2"}
Null == "null"
Idle == [pc |-> "idle", now |-> Never]
IdleCall == [pc |-> "idle", now |-> Never, protocolName |-> <<>>, chainId |-> <<>>,
             targetChainId |-> <<>>]
\* no entry of the token cache
NoEntry == [tokens |-> <<>>, timestamp |-> Never]
\* no tool invocation in flight
IdleTool == [pc |-> "idle"]

(***************************************************************************)
(* Initial state: a freshly constructed SessionManager.                    *)
(***************************************************************************)
InitSession ==
    /\ sessions = [k \in RegistryKeys |-> Absent]
    /\ sessionTimeouts = [k \in RegistryKeys |-> NoTimer]
    /\ timers = {}
    /\ closed = {}
    /\ transportSid = [h \in Handles |-> Absent]
    /\ lastAccess = [k \in RegistryKeys |-> NoAccess]

\* an access schedules a timer; keep its due time within the clock's range
CanSchedule == now + sessionTimeout <= LastTick

Tick ==
    /\ now + TickStep <= MaxTime
    /\ now' = now + TickStep
    /\ UNCHANGED <<sessionVars, serviceVars, op>>

(***************************************************************************)
(* The public methods of SessionManager, called with any arguments.        *)
(***************************************************************************)
AddTransportCall(sessionId, transport) ==
    /\ CanSchedule
    /\ SetRegistry(addTransport(Registry, sessionId, transport, now))
    /\ lastAccess' = [lastAccess EXCEPT ![sessionId] = [at |-> now, handle |-> transport]]
    /\ op' = Op("addTransport", sessionId, transport, "")
    /\ UNCHANGED <<now, closed, transportSid, serviceVars>>

GetTransportCall(sessionId) ==
    /\ Truthy(Lookup(sessions, sessionId)) => CanSchedule
    /\ SetRegistry(getTransportReg(Registry, sessionId, now))
    /\ lastAccess' = IF sessions[sessionId] # Absent
                     THEN [lastAccess EXCEPT ![sessionId].at = now]
                     ELSE lastAccess
    /\ op' = Op("getTransport", sessionId, getTransportRet(Registry, sessionId), "")
    /\ UNCHANGED <<now, closed, transportSid, serviceVars>>

RemoveTransportCall(sessionId) ==
    /\ SetRegistry(removeTransport(Registry, sessionId))
    /\ lastAccess' = [lastAccess EXCEPT ![sessionId] = NoAccess]
    /\ op' = Op("removeTransport", sessionId, sessions[sessionId], "")
    /\ UNCHANGED <<now, closed, transportSid, serviceVars>>

ClearAllSessionsCall ==
    /\ SetRegistry(clearAllSessions(Registry))
    /\ lastAccess' = [k \in RegistryKeys |-> NoAccess]
    /\ op' = Op("clearAllSessions", "", Absent, "")
    /\ UNCHANGED <<now, closed, transportSid, serviceVars>>

\* the callback scheduled by refreshSessionTimeout runs
TimerFire(q) ==
    /\ q \in timers
    /\ q.due <= now
    /\ SetRegistry(removeTransport([Registry EXCEPT !.timers = timers \ {q}], q.sid))
    /\ op' = Op("timeout", q.sid, sessions[q.sid], "")
    /\ UNCHANGED <<now, closed, transportSid, lastAccess, serviceVars>>

NextRegistry ==
    \/ Tick
    \/ \E s \in SessionIds, h \in Handles : AddTransportCall(s, h)
    \/ \E k \in Keys : GetTransportCall(k)
    \/ \E k \in Keys : RemoveTransportCall(k)
    \/ ClearAllSessionsCall
    \/ \E q \in timers : TimerFire(q)

(***************************************************************************)
(* The HTTP handlers.  A request carries the mcp-session-id header (or     *)
(* none) and, for POST, a body: an initialize request, another JSON value, *)
(* or text that is not JSON.                                               *)
(***************************************************************************)
Headers == Keys \cup {NoHeader}
JsonBodies == {"initialize", "other"}
Bodies == JsonBodies \cup {"not json"}

isInitializeRequest(body) == body = "initialize"

\* createStreamResponse: the SDK transport takes the request over; a value
\* without handleRequest makes the stream's start throw, which is caught
createStreamResponse(transport) ==
    IF transport \in Handles THEN "stream" ELSE "INTERNAL_ERROR"

\* transports never constructed so far, and ids randomUUID has not produced
FreshHandles == {h \in Handles : transportSid[h] = Absent /\ h \notin closed}
FreshIds == {s \in SessionIds : \A h \in Handles : transportSid[h] # s}

\* validateSessionAndCreateResponse, shared by GET and DELETE
SessionRequest(method, header) ==
    /\ (header # NoHeader /\ Truthy(Lookup(sessions, header))) => CanSchedule
    /\ IF header = NoHeader
       THEN /\ op' = HttpOp(method, header, "", "INVALID_SESSION")
            /\ UNCHANGED <<sessions, sessionTimeouts, timers, lastAccess>>
       ELSE LET transport == getTransportRet(Registry, header)
            IN  /\ SetRegistry(getTransportReg(Registry, header, now))
                /\ lastAccess' = IF sessions[header] # Absent
                                 THEN [lastAccess EXCEPT ![header].at = now]
                                 ELSE lastAccess
                /\ op' = HttpOp(method, header, "",
                                IF Truthy(transport)
                                THEN createStreamResponse(transport)
                                ELSE "INVALID_SESSION")
    /\ UNCHANGED <<now, closed, transportSid, serviceVars>>

handleGetRequest(header) == SessionRequest("GET", header)

handleDeleteRequest(header) == SessionRequest("DELETE", header)

\* handlePostRequest, case 1: the header names a session of the registry
PostExisting(header, body) ==
    /\ body \in JsonBodies
    /\ header # NoHeader
    /\ Truthy(Lookup(sessions, header))
    /\ CanSchedule
    /\ SetRegistry(getTransportReg(Registry, header, now))
    /\ lastAccess' = IF sessions[header] # Absent
                     THEN [lastAccess EXCEPT ![header].at = now]
                     ELSE lastAccess
    /\ op' = HttpOp("POST", header, body,
                    createStreamResponse(getTransportRet(Registry, header)))
    /\ UNCHANGED <<now, closed, transportSid, serviceVars>>

\* case 2: no header and an initialize request.  initializeSession builds a
\* transport and connects a server to it (which may throw); the SDK then
\* handles the request and, if it accepts it, mints the id and calls
\* onsessioninitialized, which registers the transport
PostInitialize(header, body, connects, accepted) ==
    /\ body \in JsonBodies
    /\ header = NoHeader
    /\ isInitializeRequest(body)
    /\ IF ~connects
       THEN /\ op' = HttpOp("POST", header, body, "INTERNAL_ERROR")
            /\ UNCHANGED <<sessions, sessionTimeouts, timers, lastAccess, transportSid>>
       ELSE IF ~accepted
       THEN /\ op' = HttpOp("POST", header, body, "stream")
            /\ UNCHANGED <<sessions, sessionTimeouts, timers, lastAccess, transportSid>>
       ELSE /\ CanSchedule
            /\ \E transport \in FreshHandles, sessionId \in FreshIds :
                 /\ transportSid' = [transportSid EXCEPT ![transport] = sessionId]
                 /\ SetRegistry(addTransport(Registry, sessionId, transport, now))
                 /\ lastAccess' = [lastAccess EXCEPT ![sessionId] =
                                      [at |-> now, handle |-> transport]]
            /\ op' = HttpOp("POST", header, body, "stream")
    /\ UNCHANGED <<now, closed, serviceVars>>

\* case 3: anything else with a JSON body
PostInvalid(header, body) ==
    /\ body \in JsonBodies
    /\ ~(header # NoHeader /\ Truthy(Lookup(sessions, header)))
    /\ ~(header = NoHeader /\ isInitializeRequest(body))
    /\ op' = HttpOp("POST", header, body, "INVALID_SESSION")
    /\ UNCHANGED <<now, sessionVars, serviceVars>>

\* c.req.json() throws on a body that is not JSON: the outer catch answers
PostNotJson(header, body) ==
    /\ body \notin JsonBodies
    /\ op' = HttpOp("POST", header, body, "INTERNAL_ERROR")
    /\ UNCHANGED <<now, sessionVars, serviceVars>>

handlePostRequest(header, body) ==
    \/ PostExisting(header, body)
    \/ \E connects, accepted \in BOOLEAN : PostInitialize(header, body, connects, accepted)
    \/ PostInvalid(header, body)
    \/ PostNotJson(header, body)

\* transport.onclose, run by the SDK when a registered transport closes
\* (a DELETE it accepted, or the connection going away)
TransportClose(transport) ==
    /\ transportSid[transport] # Absent
    /\ transport \notin closed
    /\ closed' = closed \cup {transport}
    /\ SetRegistry(removeTransport(Registry, transportSid[transport]))
    /\ lastAccess' = [lastAccess EXCEPT ![transportSid[transport]] = NoAccess]
    /\ op' = Op("onclose", transportSid[transport], transport, "")
    /\ UNCHANGED <<now, transportSid, serviceVars>>

NextHttp ==
    \/ Tick
    \/ \E h \in Headers, b \in Bodies : handlePostRequest(h, b)
    \/ \E h \in Headers : handleGetRequest(h)
    \/ \E h \in Headers : handleDeleteRequest(h)
    \/ \E t \in Handles : TransportClose(t)
    \/ \E q \in timers : TimerFire(q)

(***************************************************************************)
(* services/repository.ts: getRepository.  A call reads the clock, returns *)
(* the cached document if it is still valid, and otherwise suspends in its *)
(* fetch; other calls run while it is suspended.  The fetch ends with a    *)
(* document (a JSON object), a non-2xx response, or a rejection.           *)
(***************************************************************************)
CACHE_TTL == 5

MinuteStep == 1
MaxMinutes == 11
MaxFetches == 3

\* repository documents the upstream may serve
Docs == {"docA", "docB"}
\* response.statusText of a non-2xx response / message of a rejected fetch
StatusTexts == {<<"Not Found">>}
NetworkErrors == {<<"fetch failed">>}
Outcomes ==
    [kind : {"ok"}, doc : Docs, cause : {<<>>}]
        \cup [kind : {"http"}, doc : {Null}, cause : StatusTexts]
        \cup [kind : {"network"}, doc : {Null}, cause : NetworkErrors]

\* the clock advances while the services run
MinuteTick ==
    /\ now + MinuteStep <= MaxMinutes
    /\ now' = now + MinuteStep
    /\ UNCHANGED <<sessionVars, serviceVars, op>>

ServiceOp(name, caller, status, ret, error, cause) ==
    [name |-> name, key |-> caller, body |-> "", ret |-> ret, status |-> status,
     error |-> error, cause |-> cause, args |-> <<>>, tokens |-> <<>>]

\* variant of the validity test that accepts the instant of expiry
repositoryCacheValidInclusive(cache, expiry, t) == cache # Null /\ t <= expiry

\* repositoryCache && now < repositoryCacheExpiry
repositoryCacheValid(cache, expiry, t) == cache # Null /\ t < expiry

\* variant that counts the TTL from the end of the fetch
repositoryExpiryFromCompletion(callNow, completedAt) == completedAt + CACHE_TTL

\* repositoryCacheExpiry = now + CACHE_TTL, now read before the fetch
repositoryExpiry(callNow, completedAt) == callNow + CACHE_TTL

\* the message of the error thrown inside the try block
repositoryFailure(outcome) ==
    IF outcome.kind = "http"
    THEN <<"Failed to fetch repository: ">> \o outcome.cause
    ELSE outcome.cause

\* variant of the catch block that serves the stale document when there is one
repositoryCatchServesStale(cache, outcome) ==
    IF cache # Null
    THEN [status |-> "ok", ret |-> cache, error |-> <<>>]
    ELSE [status |-> "error", ret |-> Absent,
          error |-> <<"Failed to fetch repository data: ">> \o repositoryFailure(outcome)]

\* the catch block: always rethrows, wrapping the message
repositoryCatch(cache, outcome) ==
    [status |-> "error", ret |-> Absent,
     error |-> <<"Failed to fetch repository data: ">> \o repositoryFailure(outcome)]

\* getRepository up to its return or its first await
GetRepositoryStart(c) ==
    /\ repoCalls[c].pc = "idle"
    /\ IF repositoryCacheValid(repositoryCache, repositoryCacheExpiry, now)
       THEN /\ op' = ServiceOp("getRepository", c, "hit", repositoryCache, <<>>, <<>>)
            /\ UNCHANGED <<repoCalls, fetches>>
       ELSE /\ fetches < MaxFetches
            /\ repoCalls' = [repoCalls EXCEPT ![c] = [pc |-> "fetching", now |-> now]]
            /\ fetches' = fetches + 1
            /\ op' = ServiceOp("getRepository", c, "fetching", Absent, <<>>, <<>>)
    /\ UNCHANGED <<now, sessionVars, tokenVars, toolVars, repositoryCache,
                   repositoryCacheExpiry, slotFetchedAt>>

\* variant of the completion whose catch block empties the slot
GetRepositoryCompleteClearsSlot(c, outcome) ==
    /\ repoCalls[c].pc = "fetching"
    /\ repoCalls' = [repoCalls EXCEPT ![c] = Idle]
    /\ IF outcome.kind = "ok"
       THEN /\ repositoryCache' = outcome.doc
            /\ repositoryCacheExpiry' = repositoryExpiry(repoCalls[c].now, now)
            /\ slotFetchedAt' = repoCalls[c].now
            /\ op' = ServiceOp("getRepository", c, "ok", outcome.doc, <<>>, <<>>)
       ELSE /\ LET r == repositoryCatch(repositoryCache, outcome)
               IN  op' = ServiceOp("getRepository", c, r.status, r.ret, r.error,
                                   outcome.cause)
            /\ repositoryCache' = Null
            /\ repositoryCacheExpiry' = 0
            /\ UNCHANGED slotFetchedAt
    /\ UNCHANGED <<now, sessionVars, tokenVars, toolVars, fetches>>

\* the fetch (and response.json()) of a suspended call settles
GetRepositoryComplete(c, outcome) ==
    /\ repoCalls[c].pc = "fetching"
    /\ repoCalls' = [repoCalls EXCEPT ![c] = Idle]
    /\ IF outcome.kind = "ok"
       THEN /\ repositoryCache' = outcome.doc
            /\ repositoryCacheExpiry' = repositoryExpiry(repoCalls[c].now, now)
            /\ slotFetchedAt' = repoCalls[c].now
            /\ op' = ServiceOp("getRepository", c, "ok", outcome.doc, <<>>, <<>>)
       ELSE /\ LET r == repositoryCatch(repositoryCache, outcome)
               IN  op' = ServiceOp("getRepository", c, r.status, r.ret, r.error,
                                   outcome.cause)
            /\ UNCHANGED <<repositoryCache, repositoryCacheExpiry, slotFetchedAt>>
    /\ UNCHANGED <<now, sessionVars, tokenVars, toolVars, fetches>>

NextRepository ==
    \/ MinuteTick
    \/ \E c \in Callers : GetRepositoryStart(c)
    \/ \E c \in Callers, o \in Outcomes : GetRepositoryComplete(c, o)

(***************************************************************************)
(* services/tokens.ts.  Strings the code inspects character by character   *)
(* (protocol names, chain selectors, cache keys) are sequences of          *)
(* one-character strings; a message is a sequence of such characters and   *)
(* of literal chunks.                                                      *)
(***************************************************************************)
CACHE_EXPIRATION_MS == 30

UpperCase == <<"A", "B", "C", "D", "E", "F", "G", "H", "I", "J", "K", "L", "M",
               "N", "O", "P", "Q", "R", "S", "T", "U", "V", "W", "X", "Y", "Z">>
LowerCase == <<"a", "b", "c", "d", "e", "f", "g", "h", "i", "j", "k", "l", "m",
               "n", "o", "p", "q", "r", "s", "t", "u", "v", "w", "x", "y", "z">>
Digits == {"0", "1", "2", "3", "4", "5", "6", "7", "8", "9"}

\* String.prototype.toLowerCase
toLowerCaseChar(ch) ==
    IF \E i \in 1..26 : UpperCase[i] = ch
    THEN LowerCase[CHOOSE i \in 1..26 : UpperCase[i] = ch]
    ELSE ch

toLowerCase(str) == [i \in 1..Len(str) |-> toLowerCaseChar(str[i])]

\* /^\d+$/.test(str)
IsAllDigits(str) == Len(str) > 0 /\ \A i \in 1..Len(str) : str[i] \in Digits

\* an argument that was not passed, and what a table yields for a missing key
Undefined == <<"undefined">>
\* what an object literal yields for an inherited name, as a template
\* literal prints it
ProtoMember == <<"function Object() { [native code] }">>
ProtoNames == {<<"c", "o", "n", "s", "t", "r", "u", "c", "t", "o", "r">>}

\* table[key] on an object literal whose own properties are the function `own`
ObjectGet(own, key) ==
    IF key \in DOMAIN own THEN own[key]
    ELSE IF key \in ProtoNames THEN ProtoMember
    ELSE Undefined

Chain43114 == <<"4", "3", "1", "1", "4">>
Chain43113 == <<"4", "3", "1", "1", "3">>

CHAIN_ID_MAPPING ==
    (<<"a", "v", "a", "l", "a", "n", "c", "h", "e">> :> Chain43114)
    @@ (<<"a", "v", "a", "x">> :> Chain43114)
    @@ (<<"a", "v", "a", "l", "a", "n", "c", "h", "e", "-", "c">> :> Chain43114)
    @@ (<<"f", "u", "j", "i">> :> Chain43113)
    @@ (<<"f", "u", "j", "i", "-", "c">> :> Chain43113)
    @@ (<<"a", "v", "a", "l", "a", "n", "c", "h", "e", "-", "f", "u", "j", "i">> :> Chain43113)
    @@ (<<"a", "v", "a", "l", "a", "n", "c", "h", "e", "-", "t", "e", "s", "t", "n", "e", "t">>
            :> Chain43113)

VerifiedTokenlistUrl == <<"https://raw.githubusercontent.com/traderjoe-xyz/joe-tokenlists-v2/main/verified_tokenlist.json">>

PROTOCOL_TOKENLIST_URLS ==
    (<<"l", "f", "j">> :> VerifiedTokenlistUrl)
    @@ (<<"t", "r", "a", "d", "e", "r", "j", "o", "e">> :> VerifiedTokenlistUrl)

\* normalizeChainId: the value returned, or the error thrown
normalizeChainId(chainId) ==
    IF IsAllDigits(chainId)
    THEN [threw |-> FALSE, value |-> chainId, error |-> <<>>]
    ELSE LET normalizedChainId == ObjectGet(CHAIN_ID_MAPPING, toLowerCase(chainId))
         IN  IF normalizedChainId = Undefined
             THEN [threw |-> TRUE, value |-> Undefined,
                   error |-> <<"Cadena desconocida: ">> \o chainId]
             ELSE [threw |-> FALSE, value |-> normalizedChainId, error |-> <<>>]

\* variant of getCacheKey that forgets to lowercase the protocol
getCacheKeyCaseSensitive(protocolName, targetChainId) ==
    IF targetChainId # Undefined /\ targetChainId # <<>>
    THEN protocolName \o <<"-">> \o targetChainId
    ELSE protocolName

\* getCacheKey
getCacheKey(protocolName, targetChainId) ==
    LET lowerCaseProtocol == toLowerCase(protocolName)
    IN  IF targetChainId # Undefined /\ targetChainId # <<>>
        THEN lowerCaseProtocol \o <<"-">> \o targetChainId
        ELSE lowerCaseProtocol

(***************************************************************************)
(* JSON values of a fetched token list, tagged with their JavaScript type. *)
(***************************************************************************)
Num(n) == [type |-> "number", num |-> n, str |-> <<>>]
Str(x) == [type |-> "string", num |-> 0, str |-> x]
Undef == [type |-> "undefined", num |-> 0, str |-> <<>>]

\* !value
Falsy(v) ==
    \/ v.type = "undefined"
    \/ v.type = "string" /\ v.str = <<>>
    \/ v.type = "number" /\ v.num = 0

DigitOf == <<"0", "1", "2", "3", "4", "5", "6", "7", "8", "9">>

\* String(n) for an integer
RECURSIVE NatToString(_)
NatToString(n) ==
    IF n < 10 THEN <<DigitOf[n + 1]>>
    ELSE NatToString(n \div 10) \o <<DigitOf[(n % 10) + 1]>>

NumberToString(n) == IF n < 0 THEN <<"-">> \o NatToString(0 - n) ELSE NatToString(n)

ZeroAddress == <<"0", "x">> \o [i \in 1..40 |-> "0"]

\* variant that compares the address with the literal as it is spelled
validateAndNormalizeTokenExactCase(token) ==
    IF \/ Falsy(token.address) \/ Falsy(token.symbol) \/ Falsy(token.name)
       \/ token.decimals.type # "number"
       \/ token.chainId.type # "number"
    THEN [kind |-> "null"]
    ELSE IF token.address.type # "string"
    THEN [kind |-> "throws"]
    ELSE [kind |-> "token",
          name |-> token.name, symbol |-> token.symbol, address |-> token.address,
          decimals |-> token.decimals.num,
          chainId |-> NumberToString(token.chainId.num),
          isNative |-> (token.address.str = ZeroAddress)]

\* validateAndNormalizeToken: a TokenInfo, null, or a TypeError (toLowerCase
\* of an address that is not a string)
validateAndNormalizeToken(token) ==
    IF \/ Falsy(token.address) \/ Falsy(token.symbol) \/ Falsy(token.name)
       \/ token.decimals.type # "number"
       \/ token.chainId.type # "number"
    THEN [kind |-> "null"]
    ELSE IF token.address.type # "string"
    THEN [kind |-> "throws"]
    ELSE [kind |-> "token",
          name |-> token.name, symbol |-> token.symbol, address |-> token.address,
          decimals |-> token.decimals.num,
          chainId |-> NumberToString(token.chainId.num),
          isNative |-> (toLowerCase(token.address.str) = ZeroAddress)]

RawToken(name, symbol, address, decimals, chainId) ==
    [name |-> name, symbol |-> symbol, address |-> address, decimals |-> decimals,
     chainId |-> chainId]

\* entries an upstream list may hold
RawAvax == RawToken(Str(<<"A">>), Str(<<"A">>), Str(ZeroAddress), Num(18), Num(43114))
RawJoe == RawToken(Str(<<"J">>), Str(<<"J">>), Str(<<"0", "x", "A", "b">>), Num(18), Num(43114))
RawFuji == RawToken(Str(<<"F">>), Str(<<"F">>), Str(<<"0", "x", "f">>), Num(6), Num(43113))
RawNoAddress == RawToken(Str(<<"N">>), Str(<<"N">>), Undef, Num(18), Num(43114))

RawNumericAddress == RawToken(Str(<<"M">>), Str(<<"M">>), Num(1), Num(18), Num(43114))
RawUpperZero ==
    RawToken(Str(<<"U">>), Str(<<"U">>), Str(<<"0", "X">> \o [i \in 1..40 |-> "0"]),
             Num(18), Num(43114))
RawNegativeChain == RawToken(Str(<<"G">>), Str(<<"G">>), Str(<<"0", "x", "9">>), Num(18), Num(0 - 1))
RawNoSymbol == RawToken(Str(<<"S">>), Undef, Str(<<"0", "x", "5">>), Num(18), Num(43114))
RawEmptyName == RawToken(Str(<<>>), Str(<<"E">>), Str(<<"0", "x", "e">>), Num(18), Num(43114))
RawStringDecimals ==
    RawToken(Str(<<"D">>), Str(<<"D">>), Str(<<"0", "x", "d">>), Str(<<"1", "8">>), Num(43114))
RawStringChainId ==
    RawToken(Str(<<"C">>), Str(<<"C">>), Str(<<"0", "x", "c">>), Num(18), Str(Chain43114))

\* response bodies: a bare array, an object with (or without) a tokens array,
\* a scalar, or null
ArrayBody(items) == [type |-> "array", hasTokens |-> FALSE, items |-> items]
ObjectBody(items) == [type |-> "object", hasTokens |-> TRUE, items |-> items]
PlainObjectBody == [type |-> "object", hasTokens |-> FALSE, items |-> <<>>]
ScalarBody == [type |-> "scalar", hasTokens |-> FALSE, items |-> <<>>]
NullBody == [type |-> "null", hasTokens |-> FALSE, items |-> <<>>]

TokenBodies ==
    {ArrayBody(<<RawAvax, RawNoAddress, RawJoe, RawFuji>>),
     ObjectBody(<<RawJoe>>),
     ArrayBody(<<>>)}

TokenOutcomes ==
    [kind : {"ok"}, body : TokenBodies, cause : {<<>>}]
        \cup [kind : {"http"}, body : {ArrayBody(<<>>)},
              cause : {<<"Error HTTP ", "404", ": ", "Not Found">>}]
        \cup [kind : {"abort"}, body : {ArrayBody(<<>>)}, cause : {<<"This operation was aborted">>}]
        \cup [kind : {"network"}, body : {ArrayBody(<<>>)}, cause : {<<"fetch failed">>}]

\* fetch of something that is not a URL rejects
InvalidUrlOutcome ==
    [kind |-> "network", body |-> ArrayBody(<<>>), cause |-> <<"Failed to parse URL">>]

\* data.tokens || data, then Array.isArray(tokensData) ? tokensData : []
AllTokens(data) == IF data.type = "array" \/ data.hasTokens THEN data.items ELSE <<>>

\* allTokens.map(validateAndNormalizeToken).filter(token => token !== null)
ProcessedTokens(allTokens) ==
    LET mapped == [i \in 1..Len(allTokens) |-> validateAndNormalizeToken(allTokens[i])]
        IsToken(t) == t.kind # "null"
    IN  SelectSeq(mapped, IsToken)

\* a truthy targetChainId
HasChain(targetChainId) == targetChainId # Undefined /\ targetChainId # <<>>

\* variant that stores the whole validated list whatever the chain
FilteredTokensKeepsAll(processedTokens, targetChainId) == processedTokens

\* processedTokens.filter(token => token.chainId === targetChainId)
FilteredTokens(processedTokens, targetChainId) ==
    LET OnChain(t) == t.chainId = targetChainId
    IN  IF HasChain(targetChainId) THEN SelectSeq(processedTokens, OnChain)
        ELSE processedTokens

\* variant of the catch block without the AbortError case
tokenFetchErrorNoTimeout(protocolName, targetChainId, kind, inner) ==
    <<"Error al obtener tokens para protocolo ">> \o protocolName
        \o (IF targetChainId # Undefined /\ targetChainId # <<>>
            THEN <<" (Cadena: ">> \o targetChainId \o <<")">> ELSE <<>>)
        \o <<": ">> \o inner

\* the message of the error rethrown by the catch block
tokenFetchError(protocolName, targetChainId, kind, inner) ==
    IF kind = "abort"
    THEN <<"Timeout al obtener tokens para protocolo ">> \o protocolName
    ELSE <<"Error al obtener tokens para protocolo ">> \o protocolName
         \o (IF HasChain(targetChainId)
             THEN <<" (Cadena: ">> \o targetChainId \o <<")">> ELSE <<>>)
         \o <<": ">> \o inner

\* whether obj[key] is an own property, an inherited member or undefined
ObjectKind(own, key) ==
    IF key \in DOMAIN own THEN "own"
    ELSE IF key \in ProtoNames THEN "inherited"
    ELSE "undefined"

\* variant of the freshness test that still serves an entry aged exactly the TTL
tokenCacheFreshInclusive(cache, cacheKey, t) ==
    /\ ObjectKind(cache, cacheKey) = "own"
    /\ t - cache[cacheKey].timestamp <= CACHE_EXPIRATION_MS

\* cachedData && now - cachedData.timestamp < CACHE_EXPIRATION_MS; an inherited
\* member is truthy but has no timestamp, and NaN < n is false
tokenCacheFresh(cache, cacheKey, t) ==
    /\ ObjectKind(cache, cacheKey) = "own"
    /\ t - cache[cacheKey].timestamp < CACHE_EXPIRATION_MS

\* variant of the store that writes into the entry already there, the list
\* first, and never gets to its timestamp
ObjectSetKeepsTimestamp(own, key, value) ==
    [k \in DOMAIN own \cup {key} |->
        IF k # key THEN own[k]
        ELSE IF key \in DOMAIN own THEN [value EXCEPT !.timestamp = own[key].timestamp]
        ELSE value]

\* variant of the store that keeps what is already under the key
ObjectSetIfAbsent(own, key, value) ==
    [k \in DOMAIN own \cup {key} |-> IF k \in DOMAIN own THEN own[k] ELSE value]

\* obj[key] = value
ObjectSet(own, key, value) ==
    [k \in DOMAIN own \cup {key} |-> IF k = key THEN value ELSE own[k]]

\* protocol names and chain selectors callers pass
Lfj == <<"l", "f", "j">>
LfjUpper == <<"L", "F", "J">>
LfjDash43114 == <<"l", "f", "j", "-", "4", "3", "1", "1", "4">>
Uni == <<"u", "n", "i">>
Constructor == <<"c", "o", "n", "s", "t", "r", "u", "c", "t", "o", "r">>
Avax == <<"A", "V", "A", "X">>
Eth == <<"e", "t", "h">>

\* the argument lists getTokensByProtocol is called with
TokenArgs ==
    {<<Lfj, Undefined>>, <<LfjUpper, Undefined>>, <<Lfj, Chain43114>>,
     <<LfjUpper, Avax>>, <<Lfj, Eth>>, <<LfjDash43114, Undefined>>,
     <<Uni, Undefined>>, <<Uni, Chain43114>>, <<Uni, Eth>>,
     <<Constructor, Undefined>>, <<<<>>, Undefined>>, <<<<>>, Eth>>}

TokenStep == 15
MaxTokenTime == 30
MaxTokenFetches == 2

\* the clock advances while the token service runs
TokenTick ==
    /\ now + TokenStep <= MaxTokenTime
    /\ now' = now + TokenStep
    /\ UNCHANGED <<sessionVars, serviceVars, op>>

TokenOp(protocolName, chainId, status, tokens, error, cause) ==
    [name |-> "getTokensByProtocol", key |-> "", body |-> "", ret |-> Absent,
     status |-> status, error |-> error, cause |-> cause,
     args |-> <<protocolName, chainId>>, tokens |-> tokens]

\* getTokensByProtocol up to its return, its throw or its await
tokensPrologue(cache, protocolName, chainId, t) ==
    IF protocolName = <<>>
    THEN [status |-> "error", error |-> <<"Nombre de protocolo requerido">>,
          tokens |-> <<>>, targetChainId |-> Undefined]
    ELSE
    LET lowerCaseProtocol == toLowerCase(protocolName)
        n == IF HasChain(chainId) THEN normalizeChainId(chainId)
             ELSE [threw |-> FALSE, value |-> Undefined, error |-> <<>>]
        targetChainId == n.value
        cacheKey == getCacheKey(lowerCaseProtocol, targetChainId)
        cachedData == cache[cacheKey]
        tokenListUrl == ObjectGet(PROTOCOL_TOKENLIST_URLS, lowerCaseProtocol)
    IN  IF n.threw
        THEN [status |-> "error",
              error |-> <<"Error al normalizar chainId '">> \o chainId
                        \o <<"' para protocolo ">> \o protocolName \o <<": ">> \o n.error,
              tokens |-> <<>>, targetChainId |-> Undefined]
        ELSE IF tokenCacheFresh(cache, cacheKey, t)
        THEN [status |-> "hit", error |-> <<>>, tokens |-> cachedData.tokens,
              targetChainId |-> targetChainId]
        ELSE IF tokenListUrl = Undefined
        THEN [status |-> "error",
              error |-> <<"Protocolo no soportado para listas de tokens: ">> \o protocolName,
              tokens |-> <<>>, targetChainId |-> targetChainId]
        ELSE [status |-> "fetching", error |-> <<>>, tokens |-> <<>>,
              targetChainId |-> targetChainId]

\* a call that returns or throws before its first await
GetTokensReturn(protocolName, chainId) ==
    /\ LET r == tokensPrologue(protocolTokenCache, protocolName, chainId, now)
       IN  /\ r.status # "fetching"
           /\ op' = TokenOp(protocolName, chainId, r.status, r.tokens, r.error, <<>>)
    /\ UNCHANGED <<now, sessionVars, serviceVars>>

\* a call that misses the cache and suspends at its fetch
GetTokensStart(c, protocolName, chainId) ==
    /\ tokenCalls[c].pc = "idle"
    /\ fetches < MaxTokenFetches
    /\ LET r == tokensPrologue(protocolTokenCache, protocolName, chainId, now)
       IN  /\ r.status = "fetching"
           /\ op' = TokenOp(protocolName, chainId, r.status, r.tokens, r.error, <<>>)
           /\ tokenCalls' = [tokenCalls EXCEPT ![c] =
                 [pc |-> "fetching", now |-> now, protocolName |-> protocolName,
                  chainId |-> chainId, targetChainId |-> r.targetChainId]]
    /\ fetches' = fetches + 1
    /\ UNCHANGED <<now, sessionVars, repoVars, toolVars, protocolTokenCache, written,
                   replaced>>

\* what the try block does with a settled fetch: the list to store and
\* return, or the error it throws
tokensEpilogue(call, outcome) ==
    LET allTokens == AllTokens(outcome.body)
        mapped == [i \in 1..Len(allTokens) |-> validateAndNormalizeToken(allTokens[i])]
        Fail(kind, inner) ==
            [status |-> "error", tokens |-> <<>>,
             error |-> tokenFetchError(call.protocolName, call.targetChainId, kind, inner)]
    IN  IF outcome.kind # "ok" THEN Fail(outcome.kind, outcome.cause)
        ELSE IF outcome.body.type = "null"
        THEN Fail("type", <<"Cannot read properties of null (reading 'tokens')">>)
        ELSE IF allTokens = <<>>
        THEN Fail("invalid", <<"Formato de lista de tokens inválido o vacío">>)
        ELSE IF \E i \in 1..Len(mapped) : mapped[i].kind = "throws"
        THEN Fail("type", <<"token.address.toLowerCase is not a function">>)
        ELSE [status |-> "ok", error |-> <<>>,
              tokens |-> FilteredTokens(ProcessedTokens(allTokens), call.targetChainId)]

\* the fetch of a suspended call settles
GetTokensComplete(c, outcome) ==
    /\ tokenCalls[c].pc = "fetching"
    /\ ObjectGet(PROTOCOL_TOKENLIST_URLS, toLowerCase(tokenCalls[c].protocolName)) = ProtoMember
         => outcome = InvalidUrlOutcome
    /\ LET call == tokenCalls[c]
           r == tokensEpilogue(call, outcome)
           cacheKey == getCacheKey(toLowerCase(call.protocolName), call.targetChainId)
           entry == [tokens |-> r.tokens, timestamp |-> call.now]
       IN  /\ op' = [TokenOp(call.protocolName, call.chainId, r.status, r.tokens,
                             r.error, outcome.cause)
                        EXCEPT !.key = outcome.kind, !.body = outcome.body]
           /\ IF r.status = "ok"
              THEN /\ protocolTokenCache' = ObjectSet(protocolTokenCache, cacheKey, entry)
                   /\ written' = ObjectSet(written,
                                    <<toLowerCase(call.protocolName), call.targetChainId>>,
                                    entry)
                   /\ replaced' = IF cacheKey \in DOMAIN protocolTokenCache
                                   THEN protocolTokenCache[cacheKey] ELSE NoEntry
              ELSE UNCHANGED <<protocolTokenCache, written, replaced>>
    /\ tokenCalls' = [tokenCalls EXCEPT ![c] = IdleCall]
    /\ UNCHANGED <<now, sessionVars, repoVars, toolVars, fetches>>

NextTokens ==
    \/ TokenTick
    \/ \E a \in TokenArgs : GetTokensReturn(a[1], a[2])
    \/ \E c \in Callers, a \in TokenArgs : GetTokensStart(c, a[1], a[2])
    \/ \E c \in Callers, o \in TokenOutcomes \cup {InvalidUrlOutcome} :
          GetTokensComplete(c, o)

vars == <<now, sessionVars, serviceVars, op>>

\* module state of the two services right after import
InitServices ==
    /\ repositoryCache = Null
    /\ repositoryCacheExpiry = 0
    /\ repoCalls = [c \in Callers |-> Idle]
    /\ slotFetchedAt = Never
    /\ protocolTokenCache = <<>>
    /\ tokenCalls = [c \in Callers |-> IdleCall]
    /\ written = <<>>
    /\ replaced = NoEntry
    /\ fetches = 0
    /\ toolCall = IdleTool

\* everything but the environment the process was started with
InitProcess ==
    /\ now = 0
    /\ InitSession
    /\ InitServices
    /\ op = Op("init", "", Absent, "")

\* the Node entry point (mcp-http.ts), AUTH_TOKEN unset
Init ==
    /\ InitProcess
    /\ env = [entry |-> "node", configured |-> Undefined, AUTH_TOKEN |-> Undefined]
    /\ authToken = Undefined

InitRegistry == Init

SpecRegistry == InitRegistry /\ [][NextRegistry]_vars

SpecHttp == InitRegistry /\ [][NextHttp]_vars

SpecRepository == Init /\ [][NextRepository]_vars

SpecTokens == Init /\ [][NextTokens]_vars

\* timers do fire, and the clock does advance
SpecRegistryFair ==
    /\ SpecRegistry
    /\ WF_vars(Tick)
    /\ \A k \in Keys : WF_vars(\E q \in timers : q.sid = k /\ TimerFire(q))

Count == getActiveSessions(Registry)

PendingFor(q, k) == {x \in q : x.sid = k}

\* the step just taken is the call `name(key)` (every call leaves the clock alone
\* and records itself in op)
IsCall(name, key) == now' = now /\ op'.name = name /\ op'.key = key

(***************************************************************************)
(* C1. Sliding expiry: a lookup of a session at a time t earlier than its  *)
(* last access (creation or successful lookup) plus the timeout returns    *)
(* the session's handle, and afterwards the one pending timer of the       *)
(* session is due at t + timeout.                                          *)
(***************************************************************************)
C1_SlidingExpiry ==
    [][\A s \in SessionIds :
          (/\ IsCall("getTransport", s)
           /\ lastAccess[s].at # Never
           /\ now < lastAccess[s].at + sessionTimeout)
          => /\ op'.ret = lastAccess[s].handle
             /\ PendingFor(timers', s) = {[sid |-> s, due |-> now + sessionTimeout]}
             /\ sessionTimeouts'[s] = now + sessionTimeout]_vars

\* a session created earlier is looked up later, still inside its window
C1_Witness ==
    \E s \in SessionIds :
        /\ op.name = "getTransport" /\ op.key = s /\ op.ret \in Handles
        /\ lastAccess[s].at = now /\ now > 0
        /\ [sid |-> s, due |-> now + sessionTimeout] \in timers

(***************************************************************************)
(* C2 as stated: a lookup of a session at a time t at or after its last    *)
(* access plus the timeout, with no access in between, returns absent.     *)
(***************************************************************************)
C2_AbsentAtDeadline ==
    [][\A s \in SessionIds :
          (/\ IsCall("getTransport", s)
           /\ lastAccess[s].at # Never
           /\ now >= lastAccess[s].at + sessionTimeout)
          => op'.ret = Absent]_vars

\* the inactivity timer of a session that was accessed has run
TimerHasFired(s) == lastAccess[s].at # Never /\ PendingFor(timers, s) = {}

(***************************************************************************)
(* C2 amended: the timer of a session runs no earlier than last access     *)
(* plus timeout, and a lookup after it has run, with no access in          *)
(* between, returns absent and schedules nothing.                          *)
(***************************************************************************)
C2_AbsentAfterTimer ==
    [][\A s \in SessionIds :
          /\ (TimerHasFired(s)' => now' >= lastAccess'[s].at + sessionTimeout)
          /\ (IsCall("getTransport", s) /\ TimerHasFired(s))
               => (op'.ret = Absent /\ timers' = timers)]_vars

\* a lookup of an expired session has returned absent
C2_Witness ==
    \E s \in SessionIds :
        /\ op.name = "getTransport" /\ op.key = s /\ op.ret = Absent
        /\ TimerHasFired(s)
        /\ now >= lastAccess[s].at + sessionTimeout

(***************************************************************************)
(* C3. Idempotent removal: remove(x) lowers count() by exactly 1 when x is *)
(* in the registry and by 0 when it is not (a second remove, an unknown    *)
(* id); the entries and timers of every other id are untouched.            *)
(***************************************************************************)
C3_IdempotentRemoval ==
    [][\A k \in Keys :
          IsCall("removeTransport", k)
          => /\ Count' = Count - (IF k \in getSessionIds(Registry) THEN 1 ELSE 0)
             /\ k \notin getSessionIds(Registry)'
             /\ \A j \in Keys \ {k} :
                   /\ sessions'[j] = sessions[j]
                   /\ PendingFor(timers', j) = PendingFor(timers, j)]_vars

\* a present session has been removed while another one stays
C3_Witness ==
    /\ op.name = "removeTransport" /\ op.ret \in Handles
    /\ sessions[op.key] = Absent
    /\ Count = 1

(***************************************************************************)
(* C4. Automatic expiry: a session that is in the registry and is not      *)
(* accessed again is eventually removed from it (timers do fire).          *)
(***************************************************************************)
C4_EventuallyExpired ==
    \A s \in SessionIds : \A t \in {i \in Instants : i + sessionTimeout <= LastTick} :
        (sessions[s] # Absent /\ lastAccess[s].at = t)
            ~> (sessions[s] = Absent \/ lastAccess[s].at # t)

\* a session has been evicted by its timer and is no longer counted
C4_Witness ==
    \E s \in SessionIds :
        /\ op.name = "timeout" /\ op.key = s /\ op.ret \in Handles
        /\ s \notin getSessionIds(Registry)

(***************************************************************************)
(* C5 as stated: when the inactivity timer evicts an entry, the close hook *)
(* of the stored handle has been invoked.                                  *)
(***************************************************************************)
C5_EvictionCloses ==
    (op.name = "timeout" /\ op.ret \in Handles) => op.ret \in closed

IsRequest(method, header, body) ==
    now' = now /\ op'.name = method /\ op'.key = header /\ op'.body = body

RegistryUnchanged ==
    sessions' = sessions /\ sessionTimeouts' = sessionTimeouts /\ timers' = timers

(***************************************************************************)
(* C6 as stated: a session appears in the registry only through a POST     *)
(* without session-id header whose body is an initialize request; a POST,  *)
(* GET or DELETE whose session id is not in the registry, and a POST       *)
(* without session id whose body is not an initialize request, get the     *)
(* invalid-session error and leave the registry unchanged.                 *)
(***************************************************************************)
C6_InvalidSession ==
    [][/\ (getSessionIds(Registry)' \ getSessionIds(Registry) # {})
           => (op'.name = "POST" /\ op'.key = NoHeader /\ op'.body = "initialize")
       /\ \A k \in Keys \ getSessionIds(Registry) :
            /\ \A b \in JsonBodies :
                 IsRequest("POST", k, b)
                 => (op'.status = "INVALID_SESSION" /\ RegistryUnchanged)
            /\ \A m \in {"GET", "DELETE"} :
                 IsRequest(m, k, "")
                 => (op'.status = "INVALID_SESSION" /\ RegistryUnchanged)
       /\ IsRequest("POST", NoHeader, "other")
            => (op'.status = "INVALID_SESSION" /\ RegistryUnchanged)]_vars

\* the step just taken is caller c entering getRepository
IsGetRepository(c) ==
    /\ now' = now
    /\ repoCalls[c].pc = "idle"
    /\ op'.name = "getRepository" /\ op'.key = c
    /\ op'.status \in {"hit", "fetching"}

(***************************************************************************)
(* C7. Repository cache TTL: with t0 the instant at which the fetch whose  *)
(* document is cached was issued, a getRepository() call before t0 + TTL   *)
(* returns the cached document and issues no fetch, and a call after       *)
(* t0 + TTL issues exactly one fetch.                                      *)
(***************************************************************************)
C7_RepositoryTtl ==
    [][\A c \in Callers :
          (IsGetRepository(c) /\ slotFetchedAt # Never)
          => /\ now < slotFetchedAt + CACHE_TTL
                  => /\ op'.status = "hit" /\ op'.ret = repositoryCache
                     /\ fetches' = fetches /\ repoCalls' = repoCalls
             /\ now > slotFetchedAt + CACHE_TTL
                  => /\ op'.status = "fetching"
                     /\ fetches' = fetches + 1
                     /\ repoCalls'[c].pc = "fetching"]_vars

\* a call made after the fetch but inside the TTL was served from the cache
C7_Witness ==
    /\ op.name = "getRepository" /\ op.status = "hit"
    /\ op.ret = repositoryCache
    /\ slotFetchedAt < now /\ now < slotFetchedAt + CACHE_TTL

(***************************************************************************)
(* C8. No stale fallback: a getRepository call that had to fetch and whose *)
(* fetch fails (rejection or non-2xx) raises an error whose message is a   *)
(* fixed prefix followed by the failure's own message; it returns no       *)
(* document, cached or not.                                                *)
(***************************************************************************)
C8_NoStaleFallback ==
    (op.name = "getRepository" /\ op.cause # <<>>)
    => /\ op.status = "error"
       /\ op.ret = Absent
       /\ Len(op.error) > Len(op.cause)
       /\ op.error[1] = "Failed to fetch repository data: "
       /\ SubSeq(op.error, Len(op.error) - Len(op.cause) + 1, Len(op.error)) = op.cause

\* a refresh of an expired slot that still holds a document has failed
C8_Witness ==
    /\ op.name = "getRepository" /\ op.status = "error" /\ op.cause # <<>>
    /\ repositoryCache # Null
    /\ now >= repositoryCacheExpiry

\* a getTokensByProtocol call begins: it returns, throws or suspends
IsTokenCall ==
    /\ now' = now
    /\ op'.name = "getTokensByProtocol"
    /\ \A c \in Callers : tokenCalls[c].pc = "fetching" => tokenCalls'[c] = tokenCalls[c]

\* the suspended call of caller c resumes and finishes
IsTokenCompletion(c) ==
    /\ tokenCalls[c].pc = "fetching"
    /\ tokenCalls'[c].pc = "idle"

\* arguments that name a cache key: a protocol and an absent or known chain
NamesKey(args) ==
    /\ args[1] # <<>>
    /\ HasChain(args[2]) => ~normalizeChainId(args[2]).threw

\* the (lowercased protocol, normalized chain id or absent) pair of a call
PairOf(args) ==
    <<toLowerCase(args[1]),
      IF HasChain(args[2]) THEN normalizeChainId(args[2]).value ELSE Undefined>>

\* the property name under which the entry of a pair is stored
SlotOf(pair) ==
    IF pair[2] = Undefined THEN pair[1] ELSE pair[1] \o <<"-">> \o pair[2]

(***************************************************************************)
(* C9. Token-list cache TTL: for every (lowercased protocol, normalized    *)
(* chain id or absent) pair that has an entry, fetched at fetchedAt, a     *)
(* getTokensByProtocol call for that pair made while now - fetchedAt is    *)
(* under 30 minutes returns the stored list and issues no fetch, whatever  *)
(* the case of the protocol name and whichever alias names the chain; a    *)
(* call made once now - fetchedAt has reached 30 minutes does not return   *)
(* the stored list but issues a fetch, and when that fetch succeeds the    *)
(* entry is replaced as a whole, list and timestamp together.              *)
(***************************************************************************)
C9_TokenCacheTtl ==
    [][/\ (IsTokenCall /\ NamesKey(op'.args) /\ PairOf(op'.args) \in DOMAIN written)
          => LET stored == written[PairOf(op'.args)]
             IN  IF now - stored.timestamp < CACHE_EXPIRATION_MS
                 THEN /\ op'.status = "hit" /\ op'.tokens = stored.tokens
                      /\ fetches' = fetches /\ tokenCalls' = tokenCalls
                 ELSE /\ op'.status = "fetching"
                      /\ fetches' = fetches + 1
       /\ \A c \in Callers :
            (IsTokenCompletion(c) /\ op'.status = "ok")
            => LET call == tokenCalls[c]
                   slot == SlotOf(PairOf(<<call.protocolName, call.chainId>>))
               IN  /\ ObjectKind(protocolTokenCache', slot) = "own"
                   /\ protocolTokenCache'[slot] =
                         [tokens |-> op'.tokens, timestamp |-> call.now]]_vars

\* a call spelled in upper case and with a chain alias was served the list
\* stored for the pair (lfj, 43114)
C9_Witness ==
    /\ op.name = "getTokensByProtocol" /\ op.status = "hit"
    /\ op.args = <<LfjUpper, Avax>>
    /\ <<Lfj, Chain43114>> \in DOMAIN written
    /\ op.tokens = written[<<Lfj, Chain43114>>].tokens
    /\ op.tokens # <<>>
    /\ now > written[<<Lfj, Chain43114>>].timestamp

(***************************************************************************)
(* C10. Unsupported protocol: every finished getTokensByProtocol call      *)
(* whose protocol name, lowercased, is not a key of the protocol-to-URL    *)
(* table, and whose chain selector is absent or known, has failed with the *)
(* unsupported-protocol error and has returned no token list, whatever     *)
(* calls preceded it.                                                      *)
(***************************************************************************)
C10_UnsupportedProtocol ==
    (/\ op.name = "getTokensByProtocol" /\ op.status # "fetching"
     /\ NamesKey(op.args)
     /\ toLowerCase(op.args[1]) \notin DOMAIN PROTOCOL_TOKENLIST_URLS)
    => /\ op.status = "error"
       /\ op.error = <<"Protocolo no soportado para listas de tokens: ">> \o op.args[1]

(***************************************************************************)
(* normalizeChainId on its own: the function applied to a chain selector,  *)
(* and applied again to what it returned.                                  *)
(***************************************************************************)
MaxChainLen == 3

ChainAlphabet == {"4", "3", "a", "X", "-"}

RECURSIVE StringsUpTo(_, _)
StringsUpTo(alphabet, n) ==
    IF n = 0 THEN {<<>>}
    ELSE LET shorter == StringsUpTo(alphabet, n - 1)
         IN  shorter \cup {Append(s, ch) : s \in shorter, ch \in alphabet}

\* spellings of the table's aliases, and names the table does not hold
AliasSpellings ==
    DOMAIN CHAIN_ID_MAPPING
        \cup {<<"A", "V", "A", "X">>, <<"A", "v", "a", "x">>, <<"F", "U", "J", "I">>,
              <<"F", "u", "j", "i", "-", "C">>,
              <<"A", "V", "A", "L", "A", "N", "C", "H", "E">>}

ChainSelectors ==
    StringsUpTo(ChainAlphabet, MaxChainLen)
        \cup AliasSpellings
        \cup {Chain43114, Chain43113, Eth, Constructor}

\* a call of normalizeChainId and its outcome; previous is the argument of
\* the call whose result this call was given
NormalizeOp(chainId, r, previous) ==
    [name |-> "normalizeChainId", key |-> "", body |-> "", ret |-> r.value,
     status |-> IF r.threw THEN "error" ELSE "ok",
     error |-> r.error, cause |-> previous, args |-> <<chainId>>, tokens |-> <<>>]

NormalizeCall(chainId) ==
    /\ op' = NormalizeOp(chainId, normalizeChainId(chainId), <<>>)
    /\ UNCHANGED <<now, sessionVars, serviceVars>>

\* normalizeChainId(normalizeChainId(x)); an inherited member is not a string
\* and has no toLowerCase
NormalizeAgain ==
    /\ op.name = "normalizeChainId" /\ op.status = "ok" /\ op.cause = <<>>
    /\ op' = NormalizeOp(op.ret,
                IF op.ret = ProtoMember
                THEN [threw |-> TRUE, value |-> Undefined,
                      error |-> <<"chainId.toLowerCase is not a function">>]
                ELSE normalizeChainId(op.ret),
                <<"after">> \o op.args[1])
    /\ UNCHANGED <<now, sessionVars, serviceVars>>

NextNormalize ==
    \/ \E chainId \in ChainSelectors : NormalizeCall(chainId)
    \/ NormalizeAgain

SpecNormalize == Init /\ [][NextNormalize]_vars

(***************************************************************************)
(* C11. Chain normalization: normalizeChainId returns an all-digits input  *)
(* unchanged, maps every alias of the static table, in any letter case, to *)
(* its numeric id, returns its own result unchanged when applied to it,    *)
(* and fails with the chain-unknown error naming the input verbatim for    *)
(* every other input.                                                      *)
(***************************************************************************)
C11_ChainNormalization ==
    (op.name = "normalizeChainId")
    => LET chainId == op.args[1]
       IN  IF op.cause # <<>>
           THEN op.status = "ok" /\ op.ret = chainId
           ELSE IF IsAllDigits(chainId)
           THEN op.status = "ok" /\ op.ret = chainId
           ELSE IF toLowerCase(chainId) \in DOMAIN CHAIN_ID_MAPPING
           THEN op.status = "ok" /\ op.ret = CHAIN_ID_MAPPING[toLowerCase(chainId)]
           ELSE /\ op.status = "error"
                /\ op.error = <<"Cadena desconocida: ">> \o chainId

(***************************************************************************)
(* The token service fed with upstream lists of every shape: one caller,   *)
(* the protocol lfj with and without a chain, no passage of time.          *)
(***************************************************************************)
TokenListBodies ==
    {ArrayBody(<<RawAvax, RawNoAddress, RawJoe, RawNoAddress, RawFuji>>),
     ArrayBody(<<RawNoSymbol, RawEmptyName, RawJoe, RawStringDecimals, RawStringChainId>>),
     ArrayBody(<<RawJoe, RawNumericAddress>>),
     ArrayBody(<<RawUpperZero, RawJoe>>),
     ArrayBody(<<RawNegativeChain, RawAvax>>),
     ArrayBody(<<RawNoAddress>>),
     ObjectBody(<<RawFuji, RawAvax>>),
     ArrayBody(<<>>), ObjectBody(<<>>), PlainObjectBody, ScalarBody, NullBody}

TokenListOutcomes ==
    [kind : {"ok"}, body : TokenListBodies, cause : {<<>>}]
        \cup {o \in TokenOutcomes : o.kind # "ok"}
        \cup {[kind |-> "network", body |-> ArrayBody(<<>>),
               cause |-> <<"This operation was aborted">>]}

TokenListArgs == {<<Lfj, Undefined>>, <<Lfj, Chain43114>>, <<LfjUpper, Avax>>}

NextTokenList ==
    \/ \E a \in TokenListArgs : GetTokensReturn(a[1], a[2])
    \/ \E a \in TokenListArgs : GetTokensStart("c1", a[1], a[2])
    \/ \E o \in TokenListOutcomes : GetTokensComplete("c1", o)

SpecTokenList == Init /\ [][NextTokenList]_vars

\* a finished call whose fetch was answered 2xx with a JSON body
FetchedBody ==
    /\ op.name = "getTokensByProtocol"
    /\ op.key = "ok"

\* the body is a non-empty bare array or an object with a non-empty tokens array
IsTokenListBody(body) ==
    /\ body.type = "array" \/ (body.type = "object" /\ body.hasTokens)
    /\ body.items # <<>>

\* an upstream entry that has address, symbol and name, and numeric decimals
\* and chainId
IsCompleteEntry(raw) ==
    /\ ~Falsy(raw.address) /\ ~Falsy(raw.symbol) /\ ~Falsy(raw.name)
    /\ raw.decimals.type = "number"
    /\ raw.chainId.type = "number"

\* the complete entries of a list, in upstream order, of the chain asked for
CompleteEntries(items, chain) ==
    LET Wanted(raw) ==
            /\ IsCompleteEntry(raw)
            /\ chain # Undefined => NumberToString(raw.chainId.num) = chain
    IN  SelectSeq(items, Wanted)

(***************************************************************************)
(* C12. Token validation drop policy: a call that misses the cache and is  *)
(* answered a token list returns exactly the upstream entries that have    *)
(* address, symbol and name and numeric decimals and chainId (those of the *)
(* chain asked for, when one is), in upstream order; every other entry is  *)
(* dropped and the call does not fail.                                     *)
(***************************************************************************)
C12_DropPolicy ==
    (FetchedBody /\ IsTokenListBody(op.body))
    => LET kept == CompleteEntries(op.body.items, PairOf(op.args)[2])
       IN  /\ op.status = "ok"
           /\ Len(op.tokens) = Len(kept)
           /\ \A i \in 1..Len(kept) :
                /\ op.tokens[i].name = kept[i].name
                /\ op.tokens[i].symbol = kept[i].symbol
                /\ op.tokens[i].address = kept[i].address
                /\ op.tokens[i].decimals = kept[i].decimals.num

\* every TokenInfo the token-list cache holds or a call has just returned
KnownTokens ==
    UNION {{protocolTokenCache[k].tokens[i] : i \in 1..Len(protocolTokenCache[k].tokens)} :
              k \in DOMAIN protocolTokenCache}
        \cup (IF op.name = "getTokensByProtocol"
              THEN {op.tokens[i] : i \in 1..Len(op.tokens)} ELSE {})

\* 0x or 0X followed by forty zeros
IsZeroAddressAnyCase(address) ==
    /\ Len(address) = 42
    /\ address[1] = "0" /\ address[2] \in {"x", "X"}
    /\ \A i \in 3..42 : address[i] = "0"

\* C13 as stated: isNative is true if and only if the address equals the
\* all-zero address literal
C13_NativeIffZeroLiteral ==
    \A t \in KnownTokens : t.isNative <=> (t.address.str = ZeroAddress)

(***************************************************************************)
(* C13. Native detection, amended: every TokenInfo returned by or stored   *)
(* in the token-list cache has isNative = true if and only if its address, *)
(* compared without regard to letter case, is the all-zero address: 0x or  *)
(* 0X followed by forty zeros.                                             *)
(***************************************************************************)
C13_NativeIffZeroAnyCase ==
    \A t \in KnownTokens : t.isNative <=> IsZeroAddressAnyCase(t.address.str)

\* the cache holds a native token spelled 0X..., another spelled 0x... and
\* a token that is not native
C13_Witness ==
    /\ \E t \in KnownTokens : t.isNative /\ t.address.str # ZeroAddress
    /\ \E t \in KnownTokens : t.isNative /\ t.address.str = ZeroAddress
    /\ \E t \in KnownTokens : ~t.isNative
    /\ protocolTokenCache # <<>>

(***************************************************************************)
(* C14. Every TokenInfo returned by or stored in the token-list cache has  *)
(* a chainId that is a string of decimal digits.                           *)
(***************************************************************************)
C14_ChainIdDigits ==
    \A t \in KnownTokens : IsAllDigits(t.chainId)

InvalidTokenList == <<"Formato de lista de tokens inválido o vacío">>

(***************************************************************************)
(* C15. A call whose fetched body is neither a non-empty bare array nor an *)
(* object whose tokens field is a non-empty array fails with the           *)
(* invalid-or-empty-token-list error and returns no list.                  *)
(***************************************************************************)
C15_InvalidListFails ==
    (FetchedBody /\ ~IsTokenListBody(op.body))
    => /\ op.status = "error"
       /\ op.tokens = <<>>
       /\ Len(op.error) > 0
       /\ <<op.error[Len(op.error)]>> = InvalidTokenList

\* the last call failed with the timeout error
TimeoutReported ==
    /\ op.status = "error"
    /\ Len(op.error) > 0
    /\ op.error[1] = "Timeout al obtener tokens para protocolo "

\* the last call failed with the generic fetch-failure error
FetchFailureReported ==
    /\ op.status = "error"
    /\ Len(op.error) > 0
    /\ op.error[1] = "Error al obtener tokens para protocolo "

(***************************************************************************)
(* C16. A call whose fetch is aborted by its timeout fails with the        *)
(* timeout error, which is not the generic fetch-failure error; a call     *)
(* that ends in any other way (HTTP error, network error, invalid body,    *)
(* success) never reports a timeout.                                       *)
(***************************************************************************)
C16_TimeoutDistinct ==
    (op.name = "getTokensByProtocol")
    => /\ op.key = "abort"
            => /\ TimeoutReported /\ ~FetchFailureReported
               /\ op.error = <<"Timeout al obtener tokens para protocolo ">> \o op.args[1]
               /\ op.tokens = <<>>
       /\ op.key # "abort" => ~TimeoutReported
       /\ op.key \in {"http", "network"} => FetchFailureReported

\* a fetch was aborted by its timer and the caller was told so
C16_Witness ==
    /\ op.name = "getTokensByProtocol" /\ op.key = "abort"
    /\ TimeoutReported
    /\ op.cause = <<"This operation was aborted">>

(***************************************************************************)
(* The three tools.  A handler runs up to an await (the repository fetch,  *)
(* the token-list fetch, the fan-out of template fetches), is suspended    *)
(* there, and resumes when what it awaits settles.  What the repository    *)
(* document holds is a function of the document served.                    *)
(***************************************************************************)
TraderJoe == <<"t", "r", "a", "d", "e", "r", "j", "o", "e">>
TraderJoeMixed == <<"T", "r", "a", "d", "e", "r", "J", "o", "e">>
Uniswap == <<"u", "n", "i", "s", "w", "a", "p">>
Aave == <<"a", "a", "v", "e">>
Swap == <<"s", "w", "a", "p">>
Staking == <<"s", "t", "a", "k", "i", "n", "g">>
Lending == <<"l", "e", "n", "d", "i", "n", "g">>
Defi == <<"d", "e", "f", "i">>
Https == <<"h", "t", "t", "p", "s">>

\* String.prototype.includes
Includes(str, sub) ==
    \E i \in 0..(Len(str) - Len(sub)) : SubSeq(str, i + 1, i + Len(sub)) = sub

\* a truthy string argument
Given(arg) == arg # Undefined /\ arg # <<>>

MiniAppEndpoint(host, state, category, subcategory, protocol, endpoint) ==
    [host |-> host, state |-> state, category |-> category, subcategory |-> subcategory,
     protocol |-> protocol, endpoint |-> endpoint]

Template(id, name, protocol, endpoint) ==
    [id |-> id, name |-> name, protocol |-> protocol, endpoint |-> endpoint]

\* what response.json() of the repository fetch holds: docA is a Repository,
\* docB a JSON object without the miniAppEndpoints and templates members
RepositoryData(doc) ==
    IF doc = "docA"
    THEN [wellFormed |-> TRUE,
          miniAppEndpoints |->
            <<MiniAppEndpoint(<<"a", ".", "i", "o">>, <<"trusted">>, <<"D", "e", "F", "i">>,
                              Undefined, Https, <<"/", "s", "w", "a", "p">>),
              MiniAppEndpoint(<<"b", ".", "i", "o">>, <<"pending">>, <<"n", "f", "t">>,
                              <<"a", "r", "t">>, Https, <<"/", "m", "i", "n", "t">>),
              MiniAppEndpoint(<<"c", ".", "i", "o">>, <<"trusted">>, Defi,
                              Undefined, <<"H", "T", "T", "P">>, <<"/", "l", "e", "n", "d">>)>>,
          templates |->
            <<[baseUrl |-> <<"https://templates.example">>,
               categories |->
                 <<[id |-> Swap,
                    templates |->
                      <<Template(<<"t", "1">>, <<"S", "w", "a", "p">>, TraderJoe, <<"/t1">>),
                        Template(<<"t", "2">>, <<"P", "o", "o", "l">>, TraderJoeMixed, <<"/t2">>)>>],
                   [id |-> Staking,
                    templates |->
                      <<Template(<<"t", "3">>, <<"S", "t", "a", "k", "e">>, Aave, <<"/t3">>)>>]>>]>>]
    ELSE [wellFormed |-> FALSE, miniAppEndpoints |-> <<>>, templates |-> <<>>]

\* what a handler hands back to the SDK: a result object, or the exception
\* that left the handler
TextResult(text, items) ==
    [threw |-> FALSE, isError |-> FALSE, text |-> text, items |-> items]

createErrorResponse(message) ==
    [threw |-> FALSE, isError |-> TRUE, text |-> message, items |-> <<>>]

\* a tool invocation and what came of it; error is the validation failure or
\* the exception that reached the handler's try block; stage is the await the
\* handler last resumed from, and upstream what it then worked on
ToolOp(tool, variant, params, status, ret, error, stage, upstream, cause) ==
    [name |-> tool, key |-> variant, body |-> [stage |-> stage, upstream |-> upstream],
     ret |-> ret, status |-> status, error |-> error, cause |-> cause, args |-> params,
     tokens |-> <<>>]

(***************************************************************************)
(* tools/getMiniAppEndpoints.tool.ts                                       *)
(***************************************************************************)
All == <<"a", "l", "l">>
AnyState == <<"all">>

\* a destructuring default
OrDefault(arg, default) == IF arg = Undefined THEN default ELSE arg

\* the handler answers with the help text when no filter is given
endpointsHelp(params) ==
    /\ OrDefault(params.category, All) = All
    /\ OrDefault(params.state, AnyState) = AnyState
    /\ ~Given(params.query)
    /\ ~Given(params.protocol)

\* filterEndpoints: the four filters, applied one after the other
filterEndpoints(repository, filters) ==
    LET Keep(endpoint) ==
            /\ (Given(filters.category) /\ filters.category # All)
                 => toLowerCase(endpoint.category) = toLowerCase(filters.category)
            /\ (filters.state # Undefined /\ filters.state # AnyState)
                 => endpoint.state = filters.state
            /\ Given(filters.protocol)
                 => toLowerCase(endpoint.protocol) = toLowerCase(filters.protocol)
            /\ Given(filters.query)
                 => LET lowerCaseQuery == toLowerCase(filters.query)
                    IN  \/ Includes(toLowerCase(endpoint.host), lowerCaseQuery)
                        \/ Includes(toLowerCase(endpoint.endpoint), lowerCaseQuery)
                        \/ Includes(toLowerCase(endpoint.category), lowerCaseQuery)
                        \/ /\ Given(endpoint.subcategory)
                           /\ Includes(toLowerCase(endpoint.subcategory), lowerCaseQuery)
    IN  SelectSeq(repository.miniAppEndpoints, Keep)

getVerificationStatus(state) ==
    CASE state = <<"trusted">> -> <<"Verificado">>
      [] state = <<"pending">> -> <<"Pendiente de verificación">>
      [] state = <<"rejected">> -> <<"Rechazado">>
      [] OTHER -> <<"Estado desconocido">>

\* array.slice(0, limit)
Slice(array, limit) == SubSeq(array, 1, IF limit < Len(array) THEN limit ELSE Len(array))

\* formatEndpointsResponse: the endpoints of the JSON text, enriched
formatEndpointsResponse(endpoints) ==
    [i \in 1..Len(endpoints) |->
        LET endpoint == endpoints[i]
        IN  [host |-> endpoint.host, state |-> endpoint.state,
             category |-> endpoint.category, subcategory |-> endpoint.subcategory,
             protocol |-> endpoint.protocol, endpoint |-> endpoint.endpoint,
             fullUrl |-> endpoint.protocol \o <<":", "/", "/">> \o endpoint.host
                           \o endpoint.endpoint,
             displayName |-> endpoint.host \o endpoint.endpoint,
             verificationStatus |-> getVerificationStatus(endpoint.state),
             categoryDisplay |->
                IF Given(endpoint.subcategory)
                THEN endpoint.category \o <<" / ">> \o endpoint.subcategory
                ELSE endpoint.category]]

\* the catch block of the handler
endpointsCatch(error) ==
    createErrorResponse(<<"Error al obtener endpoints de mini aplicaciones: ">> \o error
        \o <<". Por favor, verifica los parámetros e intenta nuevamente.">>)

\* the handler from the repository document on
endpointsWithRepository(params, repository) ==
    LET category == OrDefault(params.category, All)
        state == OrDefault(params.state, AnyState)
        limit == IF params.limit.type = "undefined" THEN 50 ELSE params.limit.num
        filters == [category |-> category, state |-> state, query |-> params.query,
                    protocol |-> params.protocol]
        filteredEndpoints == filterEndpoints(repository, filters)
    IN  IF ~repository.wellFormed
        THEN [raised |-> <<"repository.miniAppEndpoints is not iterable">>,
              result |-> endpointsCatch(<<"repository.miniAppEndpoints is not iterable">>)]
        ELSE IF filteredEndpoints = <<>>
        THEN [raised |-> <<>>,
              result |-> TextResult(<<"No se encontraron endpoints de mini aplicaciones">>,
                                    <<>>)]
        ELSE [raised |-> <<>>,
              result |-> TextResult(<<"json">>,
                            formatEndpointsResponse(Slice(filteredEndpoints, limit)))]

(***************************************************************************)
(* tools/getProtocolTokens.tool.ts                                         *)
(***************************************************************************)
\* isNaN(parseInt(str, 10)): no digit after the optional sign
parseIntIsNaN(str) ==
    ~ \/ Len(str) > 0 /\ str[1] \in Digits
      \/ Len(str) > 1 /\ str[1] \in {"-", "+"} /\ str[2] \in Digits

\* chainId?.toString() of a number, a string or nothing
chainIdToString(chainId) ==
    CASE chainId.type = "number" -> NumberToString(chainId.num)
      [] chainId.type = "string" -> chainId.str
      [] OTHER -> Undefined

\* Array.from(new Set(...)): first occurrences, in insertion order
RECURSIVE InsertionOrder(_)
InsertionOrder(seq) ==
    IF seq = <<>> THEN <<>>
    ELSE LET front == InsertionOrder(SubSeq(seq, 1, Len(seq) - 1))
             last == seq[Len(seq)]
         IN  IF \E i \in 1..Len(front) : front[i] = last THEN front
             ELSE Append(front, last)

commonProtocols ==
    <<Uniswap, Aave, <<"c", "u", "r", "v", "e">>, TraderJoe,
      <<"p", "a", "n", "c", "a", "k", "e", "s", "w", "a", "p">>>>

\* getValidProtocols: the protocols of the endpoints, then the common ones
getValidProtocols(repository) ==
    LET HasProtocol(endpoint) == Given(endpoint.protocol)
        listed == SelectSeq(repository.miniAppEndpoints, HasProtocol)
    IN  InsertionOrder([i \in 1..Len(listed) |-> toLowerCase(listed[i].protocol)]
                          \o commonProtocols)

\* array.includes(value)
ArrayIncludes(array, value) == \E i \in 1..Len(array) : array[i] = value

\* the rank of a character in the collation: letters in alphabetical order,
\* whatever their case, after everything else
CollationRank(ch) ==
    LET lower == toLowerCaseChar(ch)
    IN  IF \E i \in 1..26 : LowerCase[i] = lower
        THEN CHOOSE i \in 1..26 : LowerCase[i] = lower
        ELSE 0

\* a.localeCompare(b) for words of letters: alphabetical first, and between
\* words that differ only by case, lower case first
localeCompare(a, b) ==
    LET ranksA == [i \in 1..Len(a) |-> CollationRank(a[i])]
        ranksB == [i \in 1..Len(b) |-> CollationRank(b[i])]
        n == IF Len(a) < Len(b) THEN Len(a) ELSE Len(b)
        Differ(x, y) == {i \in 1..n : x[i] # y[i]}
        First(s) == CHOOSE i \in s : \A j \in s : i <= j
    IN  IF Differ(ranksA, ranksB) # {}
        THEN IF ranksA[First(Differ(ranksA, ranksB))] < ranksB[First(Differ(ranksA, ranksB))]
             THEN 0 - 1 ELSE 1
        ELSE IF Len(a) # Len(b) THEN (IF Len(a) < Len(b) THEN 0 - 1 ELSE 1)
        ELSE IF Differ(a, b) # {}
        THEN IF a[First(Differ(a, b))] = toLowerCaseChar(a[First(Differ(a, b))])
             THEN 0 - 1 ELSE 1
        ELSE 0

\* Array.prototype.sort with a comparator: a stable sort
SortBy(array, Compare(_, _)) ==
    LET n == Len(array)
        Position(i) ==
            1 + Cardinality({j \in 1..n :
                    \/ Compare(array[j], array[i]) < 0
                    \/ Compare(array[j], array[i]) = 0 /\ j < i})
    IN  [k \in 1..n |-> array[CHOOSE i \in 1..n : Position(i) = k]]

sortTokens(tokens, sortBy) ==
    LET ByName(a, b) == localeCompare(a.name.str, b.name.str)
        BySymbol(a, b) == localeCompare(a.symbol.str, b.symbol.str)
        ByDecimals(a, b) == a.decimals - b.decimals
    IN  CASE sortBy = <<"name">> -> SortBy(tokens, ByName)
          [] sortBy = <<"symbol">> -> SortBy(tokens, BySymbol)
          [] OTHER -> SortBy(tokens, ByDecimals)

\* variant in which sortTokens sorts the array it was given
tokensAfterSortInPlace(tokens, sortBy) == sortTokens(tokens, sortBy)

\* the array sortTokens was given, once it has returned: the sort runs on
\* tokensCopy = [...tokens]
tokensAfterSort(tokens, sortBy) == tokens

chains ==
    (<<"1">> :> <<"Ethereum">>) @@ (<<"1", "0">> :> <<"Optimism">>)
    @@ (<<"5", "6">> :> <<"BNB Chain">>) @@ (<<"1", "3", "7">> :> <<"Polygon">>)
    @@ (<<"4", "2", "1", "6", "1">> :> <<"Arbitrum">>) @@ (Chain43114 :> <<"Avalanche">>)

explorers ==
    (<<"1">> :> <<"https://etherscan.io/token/">>)
    @@ (<<"1", "0">> :> <<"https://optimistic.etherscan.io/token/">>)
    @@ (<<"5", "6">> :> <<"https://bscscan.com/token/">>)
    @@ (<<"1", "3", "7">> :> <<"https://polygonscan.com/token/">>)
    @@ (<<"4", "2", "1", "6", "1">> :> <<"https://arbiscan.io/token/">>)
    @@ (Chain43114 :> <<"https://snowtrace.io/token/">>)

\* getChainName(Number(token.chainId)): chainId is the decimal string of a number
getChainName(chainId) ==
    IF chainId = <<"0">> THEN Undefined
    ELSE IF chainId \in DOMAIN chains THEN chains[chainId]
    ELSE <<"Chain ID ">> \o chainId

getExplorerUrl(chainId, address) ==
    IF chainId = <<"0">> \/ address = <<>> THEN Undefined
    ELSE IF chainId \in DOMAIN explorers THEN explorers[chainId] \o address
    ELSE Undefined

\* formatTokensResponse: the tokens of the JSON text, enriched
formatTokensResponse(tokens) ==
    [i \in 1..Len(tokens) |->
        LET token == tokens[i]
        IN  [name |-> token.name, symbol |-> token.symbol, address |-> token.address,
             decimals |-> token.decimals, chainId |-> token.chainId,
             isNative |-> token.isNative,
             displayName |-> token.name.str \o <<" (">> \o token.symbol.str \o <<")">>,
             chainName |-> getChainName(token.chainId),
             explorerUrl |-> getExplorerUrl(token.chainId, token.address.str)]]

\* variant of the handler without its catch block: the error goes on
tokensToolCatchRethrows(error) ==
    [threw |-> TRUE, isError |-> FALSE, text |-> error, items |-> <<>>]

\* the catch block of the handler
tokensToolCatch(error) ==
    createErrorResponse(<<"Error al obtener tokens: ">> \o error
        \o <<". Por favor, verifica los parámetros e intenta nuevamente.">>)

\* the validation at the top of the handler: the error result, if any
tokensToolValidation(params) ==
    IF ~Given(params.protocol)
    THEN <<"Se requiere el nombre del protocolo. Por favor, proporciona un protocolo válido como \"uniswap\", \"aave\", o \"curve\".">>
    ELSE IF params.chainId.type = "string" /\ parseIntIsNaN(params.chainId.str)
    THEN <<"El Chain ID proporcionado no es válido. Debe ser un número como 1 (Ethereum), 137 (Polygon).">>
    ELSE <<>>

\* the handler once getTokensByProtocol has returned its list
tokensToolResult(params, tokens) ==
    IF tokens = <<>>
    THEN TextResult(<<"No se encontraron tokens para el protocolo \"">> \o params.protocol
                       \o <<"\"">>, <<>>)
    ELSE TextResult(<<"json">>,
            formatTokensResponse(
                Slice(sortTokens(tokens, OrDefault(params.sort, <<"popularity">>)),
                      IF params.limit.type = "undefined" THEN 50 ELSE params.limit.num)))

\* the array getTokensByProtocol returned, once the handler is done with it:
\* slice and map build new arrays
tokensAfterHandler(params, tokens) ==
    IF tokens = <<>> THEN tokens
    ELSE tokensAfterSort(tokens, OrDefault(params.sort, <<"popularity">>))

\* the cache once the handler is done with the list stored under cacheKey;
\* getTokensByProtocol returns the array of the entry itself
cacheAfterHandler(cache, cacheKey, params) ==
    [cache EXCEPT ![cacheKey].tokens = tokensAfterHandler(params, @)]

(***************************************************************************)
(* tools/getMetadataOfTemplate.tool.ts, in its two versions: the one of    *)
(* the file of that name, and the one that falls back to an example        *)
(* endpoint when a template answers 404.                                   *)
(***************************************************************************)
RECURSIVE Flatten(_)
Flatten(seqs) == IF seqs = <<>> THEN <<>> ELSE Head(seqs) \o Flatten(Tail(seqs))

\* array.join(separator)
RECURSIVE Join(_, _)
Join(array, separator) ==
    IF array = <<>> THEN <<>>
    ELSE IF Len(array) = 1 THEN array[1]
    ELSE array[1] \o separator \o Join(Tail(array), separator)

\* filterTemplates: the matching templates with their base URL and category
filterTemplates(repositories, category, protocol, query) ==
    LET Matches(template) ==
            /\ Given(protocol)
                 => Includes(toLowerCase(template.protocol), toLowerCase(protocol))
            /\ Given(query)
                 => \/ Includes(toLowerCase(template.name), toLowerCase(query))
                    \/ Includes(toLowerCase(template.id), toLowerCase(query))
        OfCategory(repo, cat) ==
            IF Given(category) /\ toLowerCase(cat.id) # toLowerCase(category)
            THEN <<>>
            ELSE LET kept == SelectSeq(cat.templates, Matches)
                 IN  [i \in 1..Len(kept) |->
                        [template |-> kept[i], baseUrl |-> repo.baseUrl,
                         categoryId |-> cat.id]]
        OfRepository(repo) ==
            Flatten([j \in 1..Len(repo.categories) |-> OfCategory(repo, repo.categories[j])])
    IN  Flatten([i \in 1..Len(repositories) |-> OfRepository(repositories[i])])

\* JSON bodies a template endpoint may serve
JsonObject(members) == [type |-> "object", members |-> members]
JsonNull == [type |-> "null", members |-> <<>>]
JsonArray(length) == [type |-> "array", num |-> length, str |-> <<>>]

keysToInclude ==
    {<<"name">>, <<"description">>, <<"version">>, <<"author">>, <<"type">>, <<"category">>}

\* simplifyMetadata: the listed top-level members, and the length of every array
simplifyMetadata(metadata) ==
    LET members == metadata.members
        kept == keysToInclude \cap DOMAIN members
        arrays == {k \in DOMAIN members : members[k].type = "array"}
        counts == {k \o <<"Count">> : k \in arrays}
    IN  JsonObject([k \in kept \cup counts |->
                      IF k \in counts
                      THEN Num(members[CHOOSE a \in arrays : a \o <<"Count">> = k].num)
                      ELSE members[k]])

\* format === 'summary' && metadata ? simplifyMetadata(metadata) : metadata
FormattedMetadata(format, metadata) ==
    IF format = <<"summary">> /\ metadata.type # "null" THEN simplifyMetadata(metadata)
    ELSE metadata

NoError == [code |-> 0, message |-> <<>>]

TemplateMetadata(t, metadata, usedFallback, error) ==
    [templateId |-> t.template.id, templateName |-> t.template.name,
     category |-> t.categoryId, protocol |-> t.template.protocol,
     metadata |-> metadata, usedFallback |-> usedFallback, error |-> error]

\* what one of the mapped async functions resolves to (null is kind "null")
NullValue == [kind |-> "null"]
Fulfilled(entry) == [kind |-> "entry", entry |-> entry]

\* the function mapped over the templates, version of the named file
fetchOne(t, format, outcome) ==
    IF outcome.kind = "ok"
    THEN Fulfilled(TemplateMetadata(t, FormattedMetadata(format, outcome.body), FALSE,
                                    NoError))
    ELSE NullValue

\* fetchTemplatesMetadata of the named file: the fulfilled, non-null values
fetchTemplatesMetadata(templates, format, outcomes) ==
    LET values == [i \in 1..Len(templates) |-> fetchOne(templates[i], format, outcomes[i])]
        NotNull(v) == v.kind # "null"
        kept == SelectSeq(values, NotNull)
    IN  [i \in 1..Len(kept) |-> kept[i].entry]

\* the function mapped over the templates, version with the fallback
fetchOneWithFallback(t, format, outcome, fallback) ==
    IF outcome.kind = "ok"
    THEN TemplateMetadata(t, FormattedMetadata(format, outcome.body), FALSE, NoError)
    ELSE IF outcome.kind = "http"
    THEN IF outcome.status = 404 /\ fallback.kind = "ok"
         THEN TemplateMetadata(t, FormattedMetadata(format, fallback.body), TRUE, NoError)
         ELSE TemplateMetadata(t, JsonNull, FALSE,
                               [code |-> outcome.status, message |-> outcome.message])
    ELSE TemplateMetadata(t, JsonNull, FALSE,
                          [code |-> IF outcome.kind = "abort" THEN 408 ELSE 500,
                           message |-> outcome.message])

AllNotFoundEntry ==
    [templateId |-> <<"error">>, templateName |-> <<"Error 404">>,
     category |-> <<"error">>, protocol |-> <<"error">>,
     metadata |-> JsonObject((<<"error">> :>
        Str(<<"Todos los recursos solicitados devolvieron 404 Not Found. Es posible que la API haya cambiado o que las plantillas no estén disponibles temporalmente.">>))),
     usedFallback |-> FALSE, error |-> NoError]

\* fetchTemplatesMetadata, version with the fallback
fetchTemplatesMetadataWithFallback(templates, format, outcomes, fallbacks) ==
    LET values == [i \in 1..Len(templates) |->
                     fetchOneWithFallback(templates[i], format, outcomes[i], fallbacks[i])]
        notFoundCount == Cardinality({i \in 1..Len(values) : values[i].error.code = 404})
        usedFallbackCount == Cardinality({i \in 1..Len(values) : values[i].usedFallback})
        HasMetadata(v) == v.metadata.type # "null"
    IN  IF notFoundCount = Len(templates) /\ usedFallbackCount = 0
        THEN <<AllNotFoundEntry>>
        ELSE SelectSeq(values, HasMetadata)

\* the catch block of the handler
metadataCatch(error) ==
    createErrorResponse(
        <<"Error al procesar la solicitud de metadatos de plantilla: ">> \o error
        \o <<". Verifica tu conexión y los parámetros proporcionados. ",
             "Categorías disponibles: swap, staking, lending. ",
             "Ejemplos de protocolo: traderjoe, uniswap, pancakeswap.">>)

\* the handler once fetchTemplatesMetadata has returned
metadataResult(metadata) ==
    IF metadata = <<>>
    THEN TextResult(<<"No se pudo obtener metadatos para ninguna de las plantillas encontradas. Intenta con otros filtros o verifica la conexión.">>, <<>>)
    ELSE TextResult(<<"json">>, metadata)

(***************************************************************************)
(* The handlers as steps.                                                  *)
(***************************************************************************)
MaxToolFetches == 3

EndpointsTool == "get_miniapp_endpoints"
TokensTool == "get_protocol_tokens"
MetadataTool == "get_metadata_of_template"
\* the two versions of get_metadata_of_template
NamedFile == "getMetadataOfTemplate.tool.ts"
WithFallback == "with fallback"

HelpText == <<"help">>

\* the handler up to `await getRepository()`: the result it returns before
\* that, if it does
beforeRepository(tool, variant, params) ==
    IF tool = EndpointsTool
    THEN IF endpointsHelp(params)
         THEN [returns |-> TRUE, error |-> <<>>, result |-> TextResult(HelpText, <<>>)]
         ELSE [returns |-> FALSE, error |-> <<>>, result |-> TextResult(<<>>, <<>>)]
    ELSE IF tool = TokensTool
    THEN LET invalid == tokensToolValidation(params)
         IN  IF invalid # <<>>
             THEN [returns |-> TRUE, error |-> invalid, result |-> createErrorResponse(invalid)]
             ELSE [returns |-> FALSE, error |-> <<>>, result |-> TextResult(<<>>, <<>>)]
    ELSE IF variant = WithFallback /\ ~Given(params.category) /\ ~Given(params.protocol)
         THEN [returns |-> TRUE, error |-> <<>>, result |-> TextResult(HelpText, <<>>)]
         ELSE [returns |-> FALSE, error |-> <<>>, result |-> TextResult(<<>>, <<>>)]

\* the catch block of each handler
toolCatch(tool, error) ==
    IF tool = EndpointsTool THEN endpointsCatch(error)
    ELSE IF tool = TokensTool THEN tokensToolCatch(error)
    ELSE metadataCatch(error)

\* the handler returns
ToolReturns(call, result, error, stage, upstream, cause) ==
    /\ toolCall' = IdleTool
    /\ op' = ToolOp(call.tool, call.variant, call.params, "returned", result, error, stage,
                    upstream, cause)

\* the handler is suspended at its next await
ToolSuspends(call, pc, extra) ==
    /\ toolCall' = [pc |-> pc, tool |-> call.tool, variant |-> call.variant,
                    params |-> call.params, now |-> now, extra |-> extra]
    /\ op' = ToolOp(call.tool, call.variant, call.params, "suspended", Absent, <<>>, pc,
                    <<>>, <<>>)

\* get_protocol_tokens from the repository document on
TokensWithRepository(call, repository) ==
    LET params == call.params
        validProtocols == getValidProtocols(repository)
        chainId == chainIdToString(params.chainId)
        r == tokensPrologue(protocolTokenCache, params.protocol, chainId, now)
        notAvailable == <<"El protocolo \"">> \o params.protocol
                           \o <<"\" no se encuentra disponible. Protocolos válidos: ">>
                           \o Join(validProtocols, <<", ">>)
        typeError == <<"Cannot read properties of undefined (reading 'forEach')">>
    IN  IF ~repository.wellFormed
        THEN ToolReturns(call, tokensToolCatch(typeError), typeError, "repository", <<>>, <<>>)
                /\ UNCHANGED <<fetches, protocolTokenCache>>
        ELSE IF ~ArrayIncludes(validProtocols, toLowerCase(params.protocol))
        THEN ToolReturns(call, createErrorResponse(notAvailable), notAvailable, "repository", <<>>, <<>>)
                /\ UNCHANGED <<fetches, protocolTokenCache>>
        ELSE IF r.status = "error"
        THEN ToolReturns(call, tokensToolCatch(r.error), r.error, "repository", <<>>, <<>>)
                /\ UNCHANGED <<fetches, protocolTokenCache>>
        ELSE IF r.status = "hit"
        THEN ToolReturns(call, tokensToolResult(params, r.tokens), <<>>, "cache",
                         <<>>, <<>>)
                /\ protocolTokenCache' =
                      cacheAfterHandler(protocolTokenCache,
                          getCacheKey(toLowerCase(params.protocol), r.targetChainId), params)
                /\ UNCHANGED fetches
        ELSE /\ ToolSuspends(call, "tokens",
                    [protocolName |-> params.protocol, chainId |-> chainId,
                     targetChainId |-> r.targetChainId])
             /\ fetches' = fetches + 1
             /\ UNCHANGED protocolTokenCache

\* get_metadata_of_template from the repository document on
MetadataWithRepository(call, repository) ==
    LET params == call.params
        typeError == <<"repository.templates is not iterable">>
        matchingTemplates == filterTemplates(repository.templates, params.category,
                                             params.protocol, params.query)
    IN  IF ~repository.wellFormed
        THEN ToolReturns(call, metadataCatch(typeError), typeError, "repository", <<>>, <<>>)
                /\ UNCHANGED fetches
        ELSE IF matchingTemplates = <<>>
        THEN ToolReturns(call, TextResult(<<"No se encontraron plantillas">>, <<>>), <<>>,
                         "repository", <<>>, <<>>)
                /\ UNCHANGED fetches
        ELSE /\ ToolSuspends(call, "templates", matchingTemplates)
             /\ fetches' = fetches + Len(matchingTemplates)

\* a handler resumes with the repository document
WithRepository(call, doc) ==
    LET repository == RepositoryData(doc)
    IN  IF call.tool = EndpointsTool
        THEN LET r == endpointsWithRepository(call.params, repository)
             IN  ToolReturns(call, r.result, r.raised, "repository", <<>>, <<>>)
                    /\ UNCHANGED <<fetches, protocolTokenCache>>
        ELSE IF call.tool = TokensTool
        THEN TokensWithRepository(call, repository)
        ELSE MetadataWithRepository(call, repository) /\ UNCHANGED protocolTokenCache

\* arguments the tools are called with
EndpointParams ==
    {[category |-> Undefined, state |-> Undefined, query |-> Undefined,
      protocol |-> Undefined, limit |-> Undef],
     [category |-> Defi, state |-> <<"trusted">>, query |-> Undefined,
      protocol |-> Undefined, limit |-> Num(1)],
     [category |-> All, state |-> AnyState, query |-> <<"A", "r", "t">>,
      protocol |-> Undefined, limit |-> Undef],
     [category |-> Undefined, state |-> Undefined, query |-> <<>>,
      protocol |-> <<"h", "t", "t", "p">>, limit |-> Num(50)],
     [category |-> <<"g", "a", "m", "i", "n", "g">>, state |-> AnyState, query |-> Undefined,
      protocol |-> Undefined, limit |-> Num(50)]}

TokenParams ==
    {[protocol |-> TraderJoe, chainId |-> Num(43114), limit |-> Num(1), sort |-> <<"name">>],
     [protocol |-> TraderJoeMixed, chainId |-> Undef, limit |-> Undef,
      sort |-> Undefined],
     [protocol |-> TraderJoe, chainId |-> Str(Chain43114), limit |-> Num(2), sort |-> <<"symbol">>],
     [protocol |-> TraderJoe, chainId |-> Num(1), limit |-> Num(1), sort |-> <<"name">>],
     [protocol |-> Uniswap, chainId |-> Num(1), limit |-> Num(1), sort |-> <<"name">>],
     [protocol |-> <<>>, chainId |-> Undef, limit |-> Num(1), sort |-> <<"name">>],
     [protocol |-> TraderJoe, chainId |-> Str(Avax), limit |-> Num(1), sort |-> <<"name">>],
     [protocol |-> TraderJoe, chainId |-> Str(<<"1", "a">>), limit |-> Num(1), sort |-> <<"name">>],
     [protocol |-> Lfj, chainId |-> Undef, limit |-> Num(1), sort |-> <<"popularity">>]}

MetadataParams ==
    {[category |-> Swap, protocol |-> Undefined, query |-> Undefined, format |-> <<"full">>],
     [category |-> Undefined, protocol |-> Undefined, query |-> Undefined,
      format |-> Undefined],
     [category |-> Undefined, protocol |-> <<"A">>, query |-> Undefined,
      format |-> <<"summary">>],
     [category |-> Staking, protocol |-> Aave, query |-> <<"s", "t", "a", "k", "e">>,
      format |-> <<"full">>],
     [category |-> Lending, protocol |-> Undefined, query |-> Undefined, format |-> <<"full">>]}

ToolInvocations ==
    [tool : {EndpointsTool}, variant : {""}, params : EndpointParams]
        \cup [tool : {TokensTool}, variant : {""}, params : TokenParams]
        \cup [tool : {MetadataTool}, variant : {NamedFile, WithFallback},
              params : MetadataParams]

\* the handler of a tool runs up to its return or its first await
ToolRun(call) ==
    /\ fetches < MaxToolFetches
    /\ LET early == beforeRepository(call.tool, call.variant, call.params)
       IN  IF early.returns
           THEN ToolReturns(call, early.result, early.error, "start", <<>>, <<>>)
                   /\ UNCHANGED <<fetches, protocolTokenCache>>
           ELSE IF repositoryCacheValid(repositoryCache, repositoryCacheExpiry, now)
           THEN WithRepository(call, repositoryCache)
           ELSE ToolSuspends(call, "repository", <<>>) /\ fetches' = fetches + 1
                   /\ UNCHANGED protocolTokenCache
    /\ UNCHANGED <<now, sessionVars, repoVars, tokenCalls, written, replaced, authVars>>

\* a client calls a tool
ToolInvoke(call) == toolCall.pc = "idle" /\ ToolRun(call)

\* the repository fetch of the suspended handler settles
ToolRepositorySettles(outcome) ==
    /\ toolCall.pc = "repository"
    /\ IF outcome.kind = "ok"
       THEN /\ repositoryCache' = outcome.doc
            /\ repositoryCacheExpiry' = repositoryExpiry(toolCall.now, now)
            /\ slotFetchedAt' = toolCall.now
            /\ WithRepository(toolCall, outcome.doc)
       ELSE /\ LET r == repositoryCatch(repositoryCache, outcome)
               IN  ToolReturns(toolCall, toolCatch(toolCall.tool, r.error), r.error,
                               "repository", <<>>, outcome.cause)
            /\ UNCHANGED <<repositoryCache, repositoryCacheExpiry, slotFetchedAt, fetches,
                           protocolTokenCache>>
    /\ UNCHANGED <<now, sessionVars, repoCalls, tokenCalls, written, replaced, authVars>>

RawZeta ==
    RawToken(Str(<<"Z", "e", "t", "a">>), Str(<<"Z", "E", "T">>), Str(<<"0", "x", "1">>),
             Num(18), Num(1))
RawAlpha ==
    RawToken(Str(<<"A", "l", "p", "h", "a">>), Str(<<"a", "l", "p">>), Str(<<"0", "x", "2">>),
             Num(8), Num(1))

\* what the token-list fetch of a tool call ends with
ToolTokenOutcomes ==
    [kind : {"ok"},
     body : {ArrayBody(<<RawJoe, RawAvax, RawZeta, RawNoAddress, RawAlpha, RawFuji>>),
             ArrayBody(<<>>)},
     cause : {<<>>}]
        \cup [kind : {"http"}, body : {ArrayBody(<<>>)},
              cause : {<<"Error HTTP ", "404", ": ", "Not Found">>}]
        \cup [kind : {"abort"}, body : {ArrayBody(<<>>)},
              cause : {<<"This operation was aborted">>}]

\* the token-list fetch of the suspended handler settles
ToolTokensSettle(outcome) ==
    /\ toolCall.pc = "tokens"
    /\ ObjectGet(PROTOCOL_TOKENLIST_URLS, toLowerCase(toolCall.extra.protocolName))
          = ProtoMember => outcome = InvalidUrlOutcome
    /\ LET call == toolCall.extra
           r == tokensEpilogue(call, outcome)
           cacheKey == getCacheKey(toLowerCase(call.protocolName), call.targetChainId)
           entry == [tokens |-> r.tokens, timestamp |-> toolCall.now]
       IN  IF r.status = "ok"
           THEN /\ protocolTokenCache' =
                      cacheAfterHandler(ObjectSet(protocolTokenCache, cacheKey, entry),
                                        cacheKey, toolCall.params)
                /\ written' = ObjectSet(written,
                                 <<toLowerCase(call.protocolName), call.targetChainId>>,
                                 entry)
                /\ replaced' = IF cacheKey \in DOMAIN protocolTokenCache
                                THEN protocolTokenCache[cacheKey] ELSE NoEntry
                /\ ToolReturns(toolCall, tokensToolResult(toolCall.params, r.tokens), <<>>,
                               "tokens", outcome.body, outcome.cause)
           ELSE /\ ToolReturns(toolCall, tokensToolCatch(r.error), r.error,
                               "tokens", outcome.body, outcome.cause)
                /\ UNCHANGED <<protocolTokenCache, written, replaced>>
    /\ UNCHANGED <<now, sessionVars, repoVars, tokenCalls, fetches, authVars>>

\* metadata documents the template endpoints serve
TemplateDocument ==
    JsonObject((<<"name">> :> Str(<<"S">>)) @@ (<<"actions">> :> JsonArray(2))
                  @@ (<<"url">> :> Str(<<"u">>)))
ExampleDocument == JsonObject((<<"name">> :> Str(<<"token-mill-swap">>)))

\* what the fetch of one template ends with
TemplateOutcome(kind, status, body, message) ==
    [kind |-> kind, status |-> status, body |-> body, message |-> message]

TemplateOutcomes ==
    {TemplateOutcome("ok", 200, TemplateDocument, <<>>),
     TemplateOutcome("ok", 200, JsonNull, <<>>),
     TemplateOutcome("http", 500, JsonNull, <<"Internal Server Error">>),
     TemplateOutcome("http", 404, JsonNull, <<"Not Found">>),
     TemplateOutcome("abort", 0, JsonNull, <<"This operation was aborted">>),
     TemplateOutcome("error", 0, JsonNull, <<"fetch failed">>)}

\* what the fetch of the fallback URL ends with; NoFallback where none is made
NoFallback == TemplateOutcome("none", 0, JsonNull, <<>>)
FallbackOutcomes ==
    {TemplateOutcome("ok", 200, ExampleDocument, <<>>),
     TemplateOutcome("http", 503, JsonNull, <<"Service Unavailable">>)}

\* the fetches of the fan-out have all settled
ToolTemplatesSettle(outcomes, fallbacks) ==
    /\ toolCall.pc = "templates"
    /\ LET templates == toolCall.extra
           format == OrDefault(toolCall.params.format, <<"full">>)
           fellBack == {i \in 1..Len(templates) :
                          toolCall.variant = WithFallback /\ outcomes[i].kind = "http"
                              /\ outcomes[i].status = 404}
           metadata ==
               IF toolCall.variant = WithFallback
               THEN fetchTemplatesMetadataWithFallback(templates, format, outcomes, fallbacks)
               ELSE fetchTemplatesMetadata(templates, format, outcomes)
       IN  /\ DOMAIN outcomes = 1..Len(templates)
           /\ DOMAIN fallbacks = 1..Len(templates)
           /\ \A i \in 1..Len(templates) : (fallbacks[i] = NoFallback) <=> (i \notin fellBack)
           /\ fetches' = fetches + Cardinality(fellBack)
           /\ ToolReturns(toolCall, metadataResult(metadata), <<>>, "templates",
                          templates, <<outcomes, fallbacks>>)
    /\ UNCHANGED <<now, sessionVars, repoVars, tokenVars, authVars>>

\* one outcome per fetch of the fan-out in flight
FanOut(choices) ==
    IF toolCall.pc = "templates" THEN [1..Len(toolCall.extra) -> choices] ELSE {}

NextTools ==
    \/ \E call \in ToolInvocations : ToolInvoke(call)
    \/ \E outcome \in Outcomes : ToolRepositorySettles(outcome)
    \/ \E outcome \in ToolTokenOutcomes : ToolTokensSettle(outcome)
    \/ \E outcomes \in FanOut(TemplateOutcomes),
          fallbacks \in FanOut(FallbackOutcomes \cup {NoFallback}) :
            ToolTemplatesSettle(outcomes, fallbacks)

SpecTools == Init /\ [][NextTools]_vars

\* the positions of a sequence that satisfy a test, in order
SucceededFetches(outcomes) ==
    LET Succeeded(i) == outcomes[i].kind = "ok"
    IN  SelectSeq([i \in 1..Len(outcomes) |-> i], Succeeded)

\* the step starts the fan-out of a get_metadata_of_template call
StartsFanOut == toolCall.pc # "templates" /\ toolCall'.pc = "templates"

\* the step ends the fan-out of a get_metadata_of_template call
EndsFanOut ==
    /\ toolCall.pc = "templates"
    /\ op'.name = MetadataTool
    /\ op'.status = "returned"
    /\ op'.body.stage = "templates"

(***************************************************************************)
(* C17. Per-item fault isolation: get_metadata_of_template issues one      *)
(* fetch per matching template, and whatever subset of these fetches fails *)
(* (HTTP error, timeout, exception), the call returns a result that is not *)
(* an error and whose entries are exactly those of the templates whose     *)
(* fetch succeeded, in order (3 templates with the 2nd failing yield the   *)
(* entries of the 1st and the 3rd).                                        *)
(***************************************************************************)
C17_FaultIsolation ==
    [][/\ StartsFanOut => fetches' = fetches + Len(toolCall'.extra)
       /\ EndsFanOut =>
            LET templates == toolCall.extra
                succeeded == SucceededFetches(op'.cause[1])
                entries == op'.ret.items
            IN  /\ ~op'.ret.threw
                /\ ~op'.ret.isError
                /\ Len(entries) = Len(succeeded)
                /\ \A k \in 1..Len(succeeded) :
                     /\ entries[k].templateId = templates[succeeded[k]].template.id
                     /\ ~entries[k].usedFallback]_vars

\* the same, for the version of the file getMetadataOfTemplate.tool.ts alone
NamedFileIsolatesFaults ==
    [][(EndsFanOut /\ op'.key = NamedFile) =>
            LET templates == toolCall.extra
                succeeded == SucceededFetches(op'.cause[1])
                entries == op'.ret.items
            IN  /\ ~op'.ret.threw
                /\ ~op'.ret.isError
                /\ Len(entries) = Len(succeeded)
                /\ \A k \in 1..Len(succeeded) :
                     /\ entries[k].templateId = templates[succeeded[k]].template.id
                     /\ ~entries[k].usedFallback]_vars

\* a completed get_protocol_tokens call
TokensToolReturned == op.name = TokensTool /\ op.status = "returned"

\* the chain argument is absent, a natural number, or its decimal spelling
ChainIsNumeric(chainId) ==
    \/ chainId.type = "undefined"
    \/ chainId.type = "number" /\ chainId.num >= 0
    \/ chainId.type = "string" /\ IsAllDigits(chainId.str)

\* the (protocol, chain) pair a get_protocol_tokens call is about
ToolPair(params) == <<toLowerCase(params.protocol), chainIdToString(params.chainId)>>

\* the call was served: the repository document was there, the tool offers
\* the protocol, and the token-list fetch, if one was made, brought a list
TokensToolServed ==
    /\ Given(op.args.protocol)
    /\ ChainIsNumeric(op.args.chainId)
    /\ repositoryCache # Null
    /\ RepositoryData(repositoryCache).wellFormed
    /\ ArrayIncludes(getValidProtocols(RepositoryData(repositoryCache)),
                     toLowerCase(op.args.protocol))
    /\ op.body.stage = "tokens" => (op.cause = <<>> /\ AllTokens(op.body.upstream) # <<>>)

\* the value a token is sorted by is not above that of another
KeyAtMost(sort, a, b) ==
    CASE sort = <<"name">> -> localeCompare(a.name.str, b.name.str) <= 0
      [] sort = <<"symbol">> -> localeCompare(a.symbol.str, b.symbol.str) <= 0
      [] OTHER -> a.decimals <= b.decimals

\* the result of the call recorded in op is the head of the sorted list
FirstOfSorted ==
        LET params == op.args
            sort == OrDefault(params.sort, <<"popularity">>)
            limit == IF params.limit.type = "undefined" THEN 50 ELSE params.limit.num
            returned == op.ret.items
            pair == ToolPair(params)
        IN  /\ ~op.ret.threw
            /\ ~op.ret.isError
            /\ pair \in DOMAIN written
            /\ LET valid == written[pair].tokens
                   Returned(t) == \E i \in 1..Len(returned) : returned[i].address = t.address
               IN  /\ Len(returned) = (IF limit < Len(valid) THEN limit ELSE Len(valid))
                   /\ \A i \in 1..Len(returned) :
                        \E j \in 1..Len(valid) :
                           /\ valid[j].address = returned[i].address
                           /\ valid[j].name = returned[i].name
                   /\ \A i, j \in 1..Len(returned) :
                        /\ i < j => KeyAtMost(sort, returned[i], returned[j])
                        /\ i # j => returned[i].address # returned[j].address
                   /\ \A j \in 1..Len(valid) :
                        ~Returned(valid[j]) =>
                            \A i \in 1..Len(returned) : KeyAtMost(sort, returned[i], valid[j])

(***************************************************************************)
(* C18. Sort then truncate: a get_protocol_tokens call with a protocol the *)
(* tool offers, a numeric chainId, a limit and a sort key returns, from    *)
(* the token list obtained upstream for that protocol, the first `limit`   *)
(* of that chain's valid tokens in ascending order of the sort key: the    *)
(* result is sorted, holds min(limit, number of tokens) of them, and no    *)
(* token left out sorts before one returned (protocol 'uniswap', chainId   *)
(* 1, limit 1, sort 'name' over [Zeta, Alpha] returns [Alpha]).            *)
(***************************************************************************)
C18_SortThenTruncate == (TokensToolReturned /\ TokensToolServed) => FirstOfSorted

\* the same, for the one common protocol that has a token list
TraderJoeSortsThenTruncates ==
    (TokensToolReturned /\ TokensToolServed /\ toLowerCase(op.args.protocol) = TraderJoe)
        => FirstOfSorted

\* a completed invocation of one of the three tools
ToolReturned ==
    op.name \in {EndpointsTool, TokensTool, MetadataTool} /\ op.status = "returned"

Bearer == <<"B", "e", "a", "r", "e", "r", " ">>
Secret == <<"s", "3">>

\* str.startsWith(prefix)
StartsWith(str, prefix) ==
    Len(str) >= Len(prefix) /\ SubSeq(str, 1, Len(prefix)) = prefix

\* the handler returned by createAuthMiddleware(token): whether it calls
\* next(), and the message of its 401 answer otherwise
authMiddleware(token, authHeader) ==
    IF ~Given(token) THEN [next |-> TRUE, message |-> <<>>]
    ELSE IF ~Given(authHeader) \/ ~StartsWith(authHeader, Bearer)
    THEN [next |-> FALSE, message |-> <<"No autorizado: Header Authorization inválido">>]
    ELSE IF SubSeq(authHeader, 8, Len(authHeader)) # token
    THEN [next |-> FALSE, message |-> <<"No autorizado: Token inválido">>]
    ELSE [next |-> TRUE, message |-> <<>>]

\* values of the Authorization header (Undefined: no such header)
Authorizations ==
    {Undefined, Bearer \o Secret, Bearer \o Secret \o <<"x">>,
     <<"b", "e", "a", "r", "e", "r", " ">> \o Secret}

\* the requests clients send: the session header and the body
AuthHeaders == {NoHeader, "s1"}
AuthBodies == JsonBodies

Methods == {"POST", "GET", "DELETE"}

\* initializeEnv(cfEnv): envVars.AUTH_TOKEN from the Worker bindings if given,
\* else from process.env if there is one, else undefined
initializeEnv(e, cfEnv) ==
    IF cfEnv THEN [e EXCEPT !.AUTH_TOKEN = e.configured]
    ELSE IF e.entry = "node" THEN [e EXCEPT !.AUTH_TOKEN = e.configured]
    ELSE [e EXCEPT !.AUTH_TOKEN = Undefined]

\* index.ts: the middleware registered on '*' runs initializeEnv(c.env) when a
\* request comes in
WorkerInitializeEnv ==
    /\ env.entry = "worker"
    /\ env' = initializeEnv(env, TRUE)
    /\ env' # env
    /\ UNCHANGED <<now, sessionVars, repoVars, tokenVars, fetches, toolCall, authToken, op>>

\* the deployments: the Node server (mcp-http.ts main) with AUTH_TOKEN in
\* process.env or without, and the Worker (index.ts) with AUTH_TOKEN among its
\* bindings
Deployments ==
    {[entry |-> "node", configured |-> Undefined, AUTH_TOKEN |-> Undefined],
     [entry |-> "node", configured |-> Secret, AUTH_TOKEN |-> Undefined],
     [entry |-> "worker", configured |-> Secret, AUTH_TOKEN |-> Undefined]}

\* a request to the MCP path: in the Worker the middleware on '*' has run, then
\* the auth middleware, then the handler of the method
McpRequest(method, authHeader, header, body) ==
    LET auth == authMiddleware(authToken, authHeader)
    IN  /\ env.entry = "worker" => env = initializeEnv(env, TRUE)
        /\ IF ~auth.next
           THEN /\ op' = [HttpOp(method, header, body, "UNAUTHORIZED")
                            EXCEPT !.args = authHeader, !.error = auth.message]
                /\ UNCHANGED <<now, sessionVars, serviceVars>>
           ELSE CASE method = "POST" -> handlePostRequest(header, body)
                  [] method = "GET" -> body = "" /\ handleGetRequest(header)
                  [] method = "DELETE" -> body = "" /\ handleDeleteRequest(header)

\* the last request was a POST the transport of a session took over
AcceptedPost ==
    /\ op.name = "POST"
    /\ op.status = "stream"
    /\ op.key # NoHeader
    /\ ~isInitializeRequest(op.body)

\* tool calls clients make over a session
SessionToolCalls ==
    {[tool |-> EndpointsTool, variant |-> "",
      params |-> [category |-> Defi, state |-> <<"trusted">>, query |-> Undefined,
                  protocol |-> Undefined, limit |-> Num(1)]]}

\* the server the transport is connected to runs the tool the POST asked for
ToolDispatch(call) == AcceptedPost /\ ToolInvoke(call)

NextAuth ==
    \/ TokenTick
    \/ \E method \in Methods, authHeader \in Authorizations, header \in AuthHeaders,
          body \in AuthBodies \cup {""} :
            /\ (method = "POST") = (body \in AuthBodies)
            /\ McpRequest(method, authHeader, header, body)
    \/ \E q \in timers : TimerFire(q)
    \/ \E call \in SessionToolCalls : ToolDispatch(call)
    \/ \E outcome \in Outcomes : ToolRepositorySettles(outcome)
    \/ WorkerInitializeEnv

\* module load: config/environment runs initializeEnv(), then setupMcpRoutes
\* runs createAuthMiddleware(ENV.AUTH_TOKEN)
InitAuth ==
    /\ InitProcess
    /\ \E d \in Deployments :
         /\ env = initializeEnv(d, FALSE)
         /\ authToken = env.AUTH_TOKEN

SpecAuth == InitAuth /\ [][NextAuth]_vars

\* the step starts a tool
ToolStarts == toolCall.pc = "idle" /\ op'.name \in {EndpointsTool, TokensTool, MetadataTool}

\* the request of the step, made with another Authorization header, is
\* answered 401 and changes nothing
TurnedAway(authHeader) ==
    McpRequest(op'.name, authHeader, op'.key, op'.body) =>
        /\ op'.status = "UNAUTHORIZED"
        /\ UNCHANGED <<sessionVars, serviceVars>>

(***************************************************************************)
(* C20. Auth precedes session handling: when the deployment configures an  *)
(* auth token, a request to the MCP route whose Authorization header is    *)
(* not exactly 'Bearer ' followed by that token is answered 401 and        *)
(* changes nothing: no session is created or removed, no inactivity timer  *)
(* is refreshed, no fetch is issued, and no tool is started on its behalf. *)
(***************************************************************************)
C20_AuthPrecedesSessions ==
    [][/\ (Given(env.configured) /\ op'.name \in Methods) =>
            \A authHeader \in Authorizations \ {Bearer \o env.configured} :
                TurnedAway(authHeader)
       /\ (op.name \in Methods /\ op.status = "UNAUTHORIZED") => ~ToolStarts]_vars

\* the same for the token the middleware was created with: it holds of every
\* deployment, the Worker's included, where that token is undefined
CapturedTokenPrecedesSessions ==
    [][/\ (Given(authToken) /\ op'.name \in Methods) =>
            \A authHeader \in Authorizations \ {Bearer \o authToken} :
                TurnedAway(authHeader)
       /\ (op.name \in Methods /\ op.status = "UNAUTHORIZED") => ~ToolStarts]_vars

\* the Node server turned away a request naming a live session, some time
\* after its last access, for a token that only begins like the configured one
NodeTurnsAway ==
    /\ env.entry = "node"
    /\ authToken = Secret
    /\ op.name = "GET"
    /\ op.status = "UNAUTHORIZED"
    /\ op.args = Bearer \o Secret \o <<"x">>
    /\ op.key = "s1"
    /\ sessions["s1"] # Absent
    /\ lastAccess["s1"].at < now

\* the Worker, deployed with AUTH_TOKEN among its bindings, opened a session
\* for a request that carried no Authorization header
WorkerOpensSession ==
    /\ env.entry = "worker"
    /\ env.configured = Secret
    /\ env.AUTH_TOKEN = Secret
    /\ authToken = Undefined
    /\ op.name = "POST"
    /\ op.key = NoHeader
    /\ op.status = "stream"
    /\ \E id \in SessionIds : sessions[id] # Absent


\* the session ids that have a pending inactivity timer
TimerIds == {q.sid : q \in timers}

\* the pending timers of an id
TimersOf(k) == {q \in timers : q.sid = k}

(***************************************************************************)
(* C21. Timer invariant: in every reachable state of the registry the ids  *)
(* with a pending inactivity timer are exactly the ids in the map          *)
(* (getSessionIds), and each of them has exactly one pending timer.        *)
(***************************************************************************)
C21_TimerInvariant ==
    /\ TimerIds = getSessionIds(Registry)
    /\ \A k \in TimerIds : Cardinality(TimersOf(k)) = 1

\* the same for the ids the server mints: it holds whatever else is looked up
MintedIdsTimerInvariant ==
    \A s \in SessionIds :
        /\ (sessions[s] # Absent) = (TimersOf(s) # {})
        /\ Cardinality(TimersOf(s)) <= 1
        /\ sessions[s] # Absent => TimersOf(s) = {[sid |-> s, due |-> sessionTimeouts[s]]}


(***************************************************************************)
(* The two caches together.  services/repository.ts and services/tokens.ts *)
(* share no state and neither calls the other, so a behaviour exercises    *)
(* one of them: callers of getTokensByProtocol on the clock of the token   *)
(* cache, or callers of getRepository on the clock of the repository       *)
(* cache (op names the service in use).                                    *)
(***************************************************************************)
TokenServiceInUse ==
    /\ op.name \in {"init", "getTokensByProtocol"}
    /\ now % TokenStep = 0

RepositoryServiceInUse ==
    /\ op.name \in {"init", "getRepository"}
    /\ now <= MaxMinutes

NextCaches ==
    \/ TokenServiceInUse /\ NextTokens
    \/ RepositoryServiceInUse /\ NextRepository

SpecCaches == Init /\ [][NextCaches]_vars

\* the key a call's result belongs under: its protocol in lower case, then,
\* if it selected a chain, a dash and the chain's numeric id
KeyOf(protocolName, targetChainId) ==
    IF HasChain(targetChainId)
    THEN toLowerCase(protocolName) \o <<"-">> \o targetChainId
    ELSE toLowerCase(protocolName)

\* the step resumes the token call of caller c and ends it
TokenCallEnds(c) == tokenCalls[c].pc = "fetching" /\ tokenCalls'[c].pc = "idle"

\* the step resumes the getRepository call of caller c and ends it
RepositoryCallEnds(c) == repoCalls[c].pc = "fetching" /\ repoCalls'[c].pc = "idle"

\* the step changes nothing of the token cache but the entry under key k
OnlyEntryChanges(k) ==
    /\ DOMAIN protocolTokenCache' = DOMAIN protocolTokenCache \cup {k}
    /\ \A j \in DOMAIN protocolTokenCache \ {k} :
          protocolTokenCache'[j] = protocolTokenCache[j]

(***************************************************************************)
(* C22. Atomic cache writes: under any interleaving of concurrent calls,   *)
(* a step that changes the token cache is the successful end of one call;  *)
(* it replaces exactly the entry under that call's key by the whole list   *)
(* that call returns together with the time that call read, and leaves     *)
(* every other entry alone.  A step that changes the repository slot is    *)
(* the successful end of one getRepository call and sets the document that *)
(* call returns together with that call's expiry.                          *)
(***************************************************************************)
C22_AtomicCacheWrites ==
    [][/\ protocolTokenCache' # protocolTokenCache =>
            \E c \in Callers :
                /\ TokenCallEnds(c)
                /\ op'.name = "getTokensByProtocol"
                /\ op'.status = "ok"
                /\ op'.args = <<tokenCalls[c].protocolName, tokenCalls[c].chainId>>
                /\ LET k == KeyOf(tokenCalls[c].protocolName, tokenCalls[c].targetChainId)
                   IN  /\ OnlyEntryChanges(k)
                       /\ protocolTokenCache'[k] =
                             [tokens |-> op'.tokens, timestamp |-> tokenCalls[c].now]
       /\ <<repositoryCache, repositoryCacheExpiry>>' # <<repositoryCache, repositoryCacheExpiry>> =>
            \E c \in Callers :
                /\ RepositoryCallEnds(c)
                /\ op'.name = "getRepository"
                /\ op'.status = "ok"
                /\ repositoryCache' = op'.ret
                /\ repositoryCacheExpiry' = repoCalls[c].now + CACHE_TTL]_vars

\* a call stored its list under a key while another call, which had missed
\* the same key at an earlier time, was still suspended in its fetch
C22_Witness ==
    /\ op.name = "getTokensByProtocol"
    /\ op.status = "ok"
    /\ \E k \in DOMAIN protocolTokenCache, c \in Callers :
          /\ tokenCalls[c].pc = "fetching"
          /\ KeyOf(tokenCalls[c].protocolName, tokenCalls[c].targetChainId) = k
          /\ KeyOf(op.args[1], tokenCalls[c].targetChainId) = k
          /\ tokenCalls[c].now < protocolTokenCache[k].timestamp
          /\ protocolTokenCache[k].tokens = op.tokens
          /\ op.tokens # <<>>


\* the step takes caller c from idle into its fetch
TokenCallSuspends(c) == tokenCalls[c].pc = "idle" /\ tokenCalls'[c].pc = "fetching"

RepositoryCallSuspends(c) == repoCalls[c].pc = "idle" /\ repoCalls'[c].pc = "fetching"

\* no call of either service is suspended
AllCompleted ==
    \A c \in Callers : tokenCalls[c].pc = "idle" /\ repoCalls[c].pc = "idle"

(***************************************************************************)
(* C23. Last-write-wins: every call that misses issues a fetch of its own, *)
(* whether or not another call is already fetching for the same key, and   *)
(* every call whose fetch succeeds writes the slot, whatever the slot      *)
(* holds by then (also a value stored by a call that started later).  So   *)
(* once all calls have completed, each slot holds the value of the call    *)
(* whose write landed last.                                                *)
(***************************************************************************)
C23_LastWriteWins ==
    [][\A c \in Callers :
          /\ (TokenCallSuspends(c) \/ RepositoryCallSuspends(c)) => fetches' = fetches + 1
          /\ (TokenCallEnds(c) /\ op'.status = "ok") =>
                LET k == KeyOf(tokenCalls[c].protocolName, tokenCalls[c].targetChainId)
                    pair == <<toLowerCase(tokenCalls[c].protocolName),
                              tokenCalls[c].targetChainId>>
                    mine == [tokens |-> op'.tokens, timestamp |-> tokenCalls[c].now]
                IN  /\ k \in DOMAIN protocolTokenCache'
                    /\ protocolTokenCache'[k] = mine
                    /\ AllCompleted' => written'[pair] = mine
          /\ (RepositoryCallEnds(c) /\ op'.status = "ok") =>
                /\ repositoryCache' = op'.ret
                /\ slotFetchedAt' = repoCalls[c].now]_vars

\* two calls missed the key 'lfj', each fetched, and the one that had started
\* first finished last: its list took the place of the other call's list
C23_Witness ==
    /\ AllCompleted
    /\ fetches = 2
    /\ op.name = "getTokensByProtocol"
    /\ op.status = "ok"
    /\ toLowerCase(op.args[1]) = Lfj
    /\ op.args[2] = Undefined
    /\ protocolTokenCache[Lfj].tokens = op.tokens
    /\ replaced # NoEntry
    /\ replaced.timestamp > protocolTokenCache[Lfj].timestamp
    /\ replaced.tokens # op.tokens


(***************************************************************************)
(* getTokensByProtocol called with every kind of argument: protocols with  *)
(* and without a list, no protocol, chains by number, by alias, by a name  *)
(* the table does not hold, by a name every object inherits.               *)
(***************************************************************************)
StepArgs ==
    TokenArgs \cup {<<Lfj, Constructor>>, <<Uni, Constructor>>, <<<<>>, Constructor>>}

NextSteps ==
    \/ TokenTick
    \/ \E a \in StepArgs : GetTokensReturn(a[1], a[2])
    \/ \E a \in StepArgs : GetTokensStart("c1", a[1], a[2])
    \/ \E o \in TokenOutcomes \cup {InvalidUrlOutcome} : GetTokensComplete("c1", o)

SpecSteps == Init /\ [][NextSteps]_vars

\* the chain selector is all digits or, in lower case, an alias of the table
RecognizedChain(chainId) ==
    IsAllDigits(chainId) \/ toLowerCase(chainId) \in DOMAIN CHAIN_ID_MAPPING

\* the call of the step issued no fetch and wrote nothing to the cache
NoFetchNoWrite ==
    /\ fetches' = fetches
    /\ tokenCalls' = tokenCalls
    /\ protocolTokenCache' = protocolTokenCache

\* the outcome the documented order of steps gives a call
InStepOrder(protocolName, chainId) ==
    IF protocolName = <<>>
    THEN /\ op'.status = "error"
         /\ op'.error = <<"Nombre de protocolo requerido">>
         /\ NoFetchNoWrite
    ELSE IF HasChain(chainId) /\ ~RecognizedChain(chainId)
    THEN /\ op'.status = "error"
         /\ op'.error = <<"Error al normalizar chainId '">> \o chainId
                           \o <<"' para protocolo ">> \o protocolName
                           \o <<": ", "Cadena desconocida: ">> \o chainId
         /\ NoFetchNoWrite
    ELSE LET k == SlotOf(PairOf(<<protocolName, chainId>>))
         IN  IF /\ k \in DOMAIN protocolTokenCache
                /\ now - protocolTokenCache[k].timestamp < CACHE_EXPIRATION_MS
             THEN /\ op'.status = "hit"
                  /\ NoFetchNoWrite
             ELSE IF toLowerCase(protocolName) \notin DOMAIN PROTOCOL_TOKENLIST_URLS
             THEN /\ op'.status = "error"
                  /\ op'.error = <<"Protocolo no soportado para listas de tokens: ">>
                                    \o protocolName
                  /\ NoFetchNoWrite
             ELSE /\ op'.status = "fetching"
                  /\ fetches' = fetches + 1
                  /\ protocolTokenCache' = protocolTokenCache

(***************************************************************************)
(* C24. Step order of getTokensByProtocol: an empty protocol name fails    *)
(* with protocol-required before anything else; otherwise a chain selector *)
(* that is neither numeric nor an alias of the table fails with            *)
(* chain-unknown before the cache is looked at and before the protocol is  *)
(* checked; the unsupported-protocol failure comes only after a cache      *)
(* miss; a fetch is issued only when all of these passed; and a call that  *)
(* fails at one of these steps issues no fetch and writes nothing.         *)
(***************************************************************************)
C24_StepOrder ==
    [][IsTokenCall => InStepOrder(op'.args[1], op'.args[2])]_vars

\* the same for calls that pass no name every object inherits
StepOrderOfOwnNames ==
    [][(/\ IsTokenCall
        /\ toLowerCase(op'.args[1]) \notin ProtoNames
        /\ toLowerCase(op'.args[2]) \notin ProtoNames)
       => InStepOrder(op'.args[1], op'.args[2])]_vars

\* a call for an unsupported protocol with an unknown chain failed on the
\* chain, not on the protocol
ChainRejectedFirst ==
    /\ op.name = "getTokensByProtocol"
    /\ op.args = <<Uni, Eth>>
    /\ op.status = "error"
    /\ op.error = <<"Error al normalizar chainId '">> \o Eth \o <<"' para protocolo ">>
                     \o Uni \o <<": ", "Cadena desconocida: ">> \o Eth

\* a call naming the chain 'constructor' went on to fetch and stored a list
InheritedChainStored ==
    /\ op.name = "getTokensByProtocol"
    /\ op.args = <<Lfj, Constructor>>
    /\ op.status = "ok"
    /\ (Lfj \o <<"-">> \o ProtoMember) \in DOMAIN protocolTokenCache


(***************************************************************************)
(* The registry with every name a client can send: the public methods as   *)
(* before, and lookups of '__proto__'.                                     *)
(***************************************************************************)
NextClear ==
    \/ NextRegistry
    \/ GetTransportCall(ProtoSetter)

SpecClear == InitRegistry /\ [][NextClear]_vars

\* the step is a call of clearAllSessions
IsClear == now' = now /\ op'.name = "clearAllSessions"

\* the step is a timer callback that removes the session s
TimerRemoves(s) ==
    /\ op'.name = "timeout"
    /\ op'.key = s
    /\ sessions[s] # Absent
    /\ sessions'[s] = Absent

\* clearAllSessions leaves nothing behind
ClearedAll ==
    /\ timers' = {}
    /\ getActiveSessions(Registry') = 0
    /\ getSessionIds(Registry') = {}

\* a callback that removes a session belongs to the timer scheduled by the
\* last access of that very session, never to one scheduled earlier
OnlyOwnTimerRemoves ==
    \A s \in SessionIds :
        TimerRemoves(s) =>
            /\ lastAccess[s].at # Never
            /\ timers \ timers' = {[sid |-> s, due |-> lastAccess[s].at + sessionTimeout]}

(***************************************************************************)
(* C25. clearAllSessions cancels every pending inactivity timer and        *)
(* empties the map: right after it no timer is pending, the count is 0 and *)
(* the list of ids is empty; and a session created afterwards is only ever *)
(* removed by its own timer, never by one scheduled before the clear.      *)
(***************************************************************************)
C25_ClearCancelsTimers ==
    [][/\ IsClear => ClearedAll
       /\ OnlyOwnTimerRemoves]_vars

\* the same without the claim that no timer at all stays pending: the timers
\* of every name but '__proto__' are cancelled
ClearCancelsOwnTimers ==
    [][/\ IsClear =>
            /\ \A q \in timers' : q.sid = ProtoSetter
            /\ getActiveSessions(Registry') = 0
            /\ getSessionIds(Registry') = {}
       /\ OnlyOwnTimerRemoves]_vars

\* a timer started by a lookup of '__proto__' is still pending after
\* clearAllSessions, beside the timer of a session created since
TimerSurvivesClear ==
    /\ op.name = "addTransport"
    /\ \E q \in timers : q.sid = ProtoSetter /\ q.due < now + sessionTimeout
    /\ sessionTimeouts[ProtoSetter] = NoTimer
    /\ \E s \in SessionIds : sessions[s] # Absent /\ lastAccess[s].at = now


\* the elements of a list
Elements(list) == {list[i] : i \in 1..Len(list)}

\* the validated tokens of a fetched body that an entry for the chain must
\* hold: all of them if no chain was selected, else those of that chain
Belonging(body, targetChainId) ==
    LET validated == ProcessedTokens(AllTokens(body))
    IN  {i \in 1..Len(validated) :
            targetChainId = Undefined \/ validated[i].chainId = targetChainId}

(***************************************************************************)
(* C26. Filter at write: the entry stored for a pair with chain id c holds *)
(* only tokens whose chainId is c; when a call stores its entry, the entry *)
(* holds exactly the validated tokens of the list it fetched that belong   *)
(* to its chain, and all validated tokens if it selected no chain; and a   *)
(* cache hit returns the stored list as it is, which for a call with a     *)
(* chain holds tokens of that chain only.                                  *)
(***************************************************************************)
C26_FilterAtWrite ==
    [][/\ \A pair \in DOMAIN written' :
            pair[2] # Undefined =>
                \A t \in Elements(protocolTokenCache'[SlotOf(pair)].tokens) :
                    t.chainId = pair[2]
       /\ \A c \in Callers :
            (TokenCallEnds(c) /\ op'.status = "ok") =>
                LET call == tokenCalls[c]
                    stored == protocolTokenCache'[KeyOf(call.protocolName,
                                                        call.targetChainId)].tokens
                    validated == ProcessedTokens(AllTokens(op'.body))
                    belonging == Belonging(op'.body, call.targetChainId)
                IN  /\ Len(stored) = Cardinality(belonging)
                    /\ Elements(stored) = {validated[i] : i \in belonging}
                    /\ \A t \in Elements(stored) : t.kind = "token"
       /\ (IsTokenCall /\ op'.status = "hit") =>
            LET pair == PairOf(op'.args)
            IN  /\ op'.tokens = protocolTokenCache[SlotOf(pair)].tokens
                /\ pair[2] # Undefined =>
                      \A t \in Elements(op'.tokens) : t.chainId = pair[2]]_vars

\* a list with tokens of two chains and entries that fail validation was
\* fetched for chain 43114; the entry holds the two valid tokens of that chain
C26_Witness ==
    /\ op.name = "getTokensByProtocol"
    /\ op.status = "ok"
    /\ op.args = <<LfjUpper, Avax>>
    /\ op.body = ArrayBody(<<RawAvax, RawNoAddress, RawJoe, RawNoAddress, RawFuji>>)
    /\ Len(protocolTokenCache[LfjDash43114].tokens) = 2
    /\ \A t \in Elements(protocolTokenCache[LfjDash43114].tokens) : t.chainId = Chain43114

\* a hit for a chain served the stored list
ChainHitServed ==
    /\ op.name = "getTokensByProtocol"
    /\ op.status = "hit"
    /\ op.args = <<Lfj, Chain43114>>
    /\ op.tokens # <<>>
    /\ op.tokens = protocolTokenCache[LfjDash43114].tokens


(***************************************************************************)
(* Teardown on close (part_006 224-229, 244-264; session.manager.ts 82-93) *)
(***************************************************************************)
\* the ids of the sessions whose transport has run its onclose callback
ClosedIds == {transportSid[h] : h \in closed}

\* the id has no entry in the registry and no timer is pending for it
TornDown(s) ==
    /\ sessions[s] = Absent
    /\ sessionTimeouts[s] = NoTimer
    /\ TimersOf(s) = {}

\* the step is a request carrying a closed session's id that is answered
\* with the given status and changes nothing in the registry
ClosedIdAnswered(method, s, body, status) ==
    IsRequest(method, s, body) => (op'.status = status /\ RegistryUnchanged)

ClosedIdNotJson ==
    \E s \in ClosedIds :
        op.name = "POST" /\ op.key = s /\ op.body = "not json"
        /\ op.status = "INTERNAL_ERROR"


(***************************************************************************)
(* The cache key as a function of the pair (tokens.ts 58-63, 126-134).     *)
(***************************************************************************)
\* the pairs that have an entry, and the pair of the call just made
PairsInUse ==
    DOMAIN written
    \cup (IF op.name = "getTokensByProtocol" /\ NamesKey(op.args)
          THEN {PairOf(op.args)} ELSE {})

\* the call just made was answered from the cache
ServedFromCache == op.name = "getTokensByProtocol" /\ op.status = "hit"

(***************************************************************************)
(* C28 as stated: distinct (lowercased protocol, normalized chain id or    *)
(* absent) pairs get distinct cache keys, so a call answered from the      *)
(* cache is answered with the entry written for its own pair.              *)
(***************************************************************************)
C28_KeyInjectivity ==
    /\ \A p1, p2 \in PairsInUse :
         getCacheKey(p1[1], p1[2]) = getCacheKey(p2[1], p2[2]) => p1 = p2
    /\ ServedFromCache
         => /\ PairOf(op.args) \in DOMAIN written
            /\ op.tokens = written[PairOf(op.args)].tokens

\* the property without protocol names that contain the separator
HasDash(name) == \E i \in 1..Len(name) : name[i] = "-"

KeyInjectivityWithoutDash ==
    /\ \A p1, p2 \in {p \in PairsInUse : ~HasDash(p[1])} :
         getCacheKey(p1[1], p1[2]) = getCacheKey(p2[1], p2[2]) => p1 = p2
    /\ (ServedFromCache /\ ~HasDash(op.args[1]))
         => /\ PairOf(op.args) \in DOMAIN written
            /\ op.tokens = written[PairOf(op.args)].tokens

\* a call for the pair (lfj-43114, absent) was answered with the entry
\* written for the pair (lfj, 43114)
ServedFromOtherPair ==
    /\ ServedFromCache
    /\ op.args = <<LfjDash43114, Undefined>>
    /\ <<LfjDash43114, Undefined>> \notin DOMAIN written
    /\ <<Lfj, Chain43114>> \in DOMAIN written
    /\ op.tokens = written[<<Lfj, Chain43114>>].tokens


(***************************************************************************)
(* The cached lists under get_protocol_tokens (getProtocolTokens.tool.ts   *)
(* 249-260, 358-375; tokens.ts 128-134, 178-183).                          *)
(***************************************************************************)
\* the step is a get_protocol_tokens handler answering from the cache
ServedFromEntry ==
    /\ op'.name = TokensTool
    /\ op'.status = "returned"
    /\ op'.body.stage = "cache"

(***************************************************************************)
(* C29. Tool calls do not mutate cached data: after any sequence of        *)
(* get_protocol_tokens calls, with any sort and limit, the list stored in  *)
(* the cache for a pair has the elements it was written with, in the order *)
(* it was written with, and a call served from the cache leaves every      *)
(* entry as it was.                                                        *)
(***************************************************************************)
C29_ToolsLeaveCache ==
    [][/\ \A pair \in DOMAIN written' :
            /\ ObjectKind(protocolTokenCache', SlotOf(pair)) = "own"
            /\ protocolTokenCache'[SlotOf(pair)] = written'[pair]
       /\ ServedFromEntry => protocolTokenCache' = protocolTokenCache]_vars

\* a call sorted by name was served from the cache a list that is stored in
\* another order, and returned fewer tokens than are stored
C29_Witness ==
    /\ op.name = TokensTool /\ op.status = "returned" /\ op.body.stage = "cache"
    /\ op.args.sort = <<"name">>
    /\ \E pair \in DOMAIN written :
         LET stored == protocolTokenCache[SlotOf(pair)].tokens
         IN  /\ stored = written[pair].tokens
             /\ Len(stored) > 1
             /\ sortTokens(stored, <<"name">>) # stored
             /\ Len(op.ret.items) < Len(stored)
             /\ op.ret.items[1].name = sortTokens(stored, <<"name">>)[1].name


(***************************************************************************)
(* Failed calls and the two caches (tokens.ts 102-197; part_005 8-36).     *)
(***************************************************************************)
TokenCacheUnchanged == protocolTokenCache' = protocolTokenCache

RepositorySlotUnchanged ==
    /\ repositoryCache' = repositoryCache
    /\ repositoryCacheExpiry' = repositoryCacheExpiry

(***************************************************************************)
(* C30. State unchanged on failed refresh: no step of a getTokensByProtocol*)
(* call that fails (at validation, at the protocol check, or after its     *)
(* fetch with an HTTP error, a timeout or an invalid or empty list)        *)
(* changes any entry of the token-list cache, and no step of a failed      *)
(* getRepository call changes the slot's document or expiry; the steps of  *)
(* a call are its start, up to its throw or its await, and its completion. *)
(***************************************************************************)
C30_FailedRefreshKeepsState ==
    [][/\ (IsTokenCall /\ op'.status \in {"error", "fetching"}) => TokenCacheUnchanged
       /\ \A c \in Callers :
            /\ (TokenCallEnds(c) /\ op'.status = "error") => TokenCacheUnchanged
            /\ RepositoryCallSuspends(c) => RepositorySlotUnchanged
            /\ (RepositoryCallEnds(c) /\ op'.status = "error")
                 => RepositorySlotUnchanged]_vars

\* a refresh of an expired entry has failed after its fetch, and the entry
\* is the one written before
C30_Witness ==
    /\ op.name = "getTokensByProtocol" /\ op.status = "error"
    /\ op.key \in {"http", "abort", "ok"}
    /\ NamesKey(op.args)
    /\ PairOf(op.args) \in DOMAIN written
    /\ ObjectKind(protocolTokenCache, SlotOf(PairOf(op.args))) = "own"
    /\ protocolTokenCache[SlotOf(PairOf(op.args))] = written[PairOf(op.args)]
    /\ now - written[PairOf(op.args)].timestamp >= CACHE_EXPIRATION_MS

\* a refresh of the expired repository document has failed, and the slot
\* holds the document and the expiry of the fetch before
FailedRepositoryRefresh ==
    /\ op.name = "getRepository" /\ op.status = "error"
    /\ repositoryCache # Null
    /\ repositoryCacheExpiry = slotFetchedAt + CACHE_TTL
    /\ now >= repositoryCacheExpiry

====
